---- MODULE Spec2Model ----
(***************************************************************************)
(* Verification model of music-json-editor: the path codec, tree walker,   *)
(* value resolver, duplicate-title finder and diagnostics of               *)
(* utils/jsonPath + utils/matcher, the bilingual extractor of App.tsx, the *)
(* normalizer, strict comparator, matcher cache and line differencer of    *)
(* validator.js, the standalone command-line validator, the timestamp      *)
(* normalizer of utils/validation, the editor state of App.tsx with its    *)
(* translation pane, and the retry loop of the translation service.        *)
(*                                                                         *)
(* Strings are sequences of one-character strings, so that split, trim,    *)
(* regular-expression scanning and concatenation are computed character by *)
(* character as the code computes them.                                    *)
(***************************************************************************)
EXTENDS Integers, Sequences, FiniteSets, TLC

VARIABLES
    pc,              \* position of the call under way
    segments,        \* argument of buildPathKey
    pathKey,         \* result of buildPathKey / argument of parsePathKey
    parsed,          \* result of parsePathKey
    originalJson,    \* first document (source)
    translationJson, \* second document (translation)
    walked,          \* results of the traversals of originalJson
    diag,            \* result of diagnoseMatch
    value,           \* argument of cleanTranslatedValue
    cleaned,         \* result of cleanTranslatedValue, and of applying it again
    sepRegex,        \* JSONValidator.sepRegex
    chineseRegex,    \* JSONValidator.chineseRegex
    original,        \* first argument of computeLCS (a text)
    translated,      \* second argument of computeLCS (a text)
    lcs,             \* result of computeLCS
    builds,          \* how many times each matcher of the validator was constructed
    argv,            \* command line of the standalone validator
    files,           \* the files the standalone validator can read
    exitCode,        \* exit status of the standalone validator
    results,         \* errors and warnings of a strict comparison
    ts,              \* argument of normalizeTimestamp
    stamp,           \* result of normalizeTimestamp
    jsonText,        \* App: raw text of the source pane
    data,            \* App: parsed source document, or null
    parseError,      \* App: error shown for the raw text, or null
    past,            \* App: undo stack
    future,          \* App: redo stack
    translationJsonText, \* App: raw text of the loaded translation
    translationInput, \* TranslationJsonInput: its own text, error and diagnostics
    translationMap,  \* App: path key -> translation
    translationDiag, \* App: stored diagnostics, or null
    apiSettings,     \* translateJson: provider chosen in the settings
    attempt,         \* translateJson: loop counter
    response,        \* translateJson: what the service answered to the last attempt
    lastError,       \* translateJson: error of the last failed attempt
    delays,          \* translateJson: the delay(ms) calls made so far
    reply            \* translateJson: state of the returned promise

vars == <<pc, segments, pathKey, parsed, originalJson, translationJson, walked,
          diag, value, cleaned, sepRegex, chineseRegex, original, translated, lcs,
          builds, argv, files, exitCode, results,
          ts, stamp,
          jsonText, data, parseError, past, future, translationJsonText,
          translationInput, translationMap, translationDiag,
          apiSettings, attempt, response, lastError, delays, reply>>

----------------------------------------------------------------------------
(* Bounds of the model.                                                    *)

MaxPathLen == 3      \* segments in a path handed to the codec
MaxIndex == 1        \* array indices 0..MaxIndex in codec paths
BigIndex == 10       \* one multi-digit index in codec paths
MaxNodes == 4        \* nodes of a document walked on its own
MaxPairNodes == 3    \* nodes of each document of a compared pair
MaxStrLen == 4       \* characters of a string handed to the normalizer
MaxTextLen == 3      \* characters of each text handed to the line differencer
\* The node cap of the traversals in the specification of the cap.  The loops
\* use MAX_NODES only in the test ++iter > MAX_NODES, so a run over a
\* document of more nodes than the cap is modelled with the cap scaled to
\* CapNodes and documents of up to CapNodes + 1 nodes.
CapNodes == 2
MaxResolveLen == 2   \* segments of a path key handed to getByPath
MaxArgs == 3         \* command-line arguments of the standalone validator
MaxStrictNodes == 2  \* nodes of each document handed to a strict comparator
MaxCalls == 2        \* recorded cleanTranslatedValue calls on one validator
MaxBuilds == 2       \* cap of the count of constructions of a matcher
MaxStampParts == 3   \* points and other parts of a text handed to normalizeTimestamp
MaxHistory == 2      \* entries of the undo stack of the editor

----------------------------------------------------------------------------
(* Generic helpers on sequences.                                           *)

Range(s) == {s[i] : i \in 1..Len(s)}

RECURSIVE Concat(_)
Concat(ss) == IF ss = <<>> THEN <<>> ELSE Head(ss) \o Concat(Tail(ss))

RECURSIVE SeqsUpTo(_, _)
SeqsUpTo(S, n) ==
    IF n = 0 THEN {<<>>}
    ELSE LET shorter == SeqsUpTo(S, n - 1)
         IN  shorter \cup {Append(s, x) : s \in {t \in shorter : Len(t) = n - 1}, x \in S}

Count(s, x) == Cardinality({i \in 1..Len(s) : s[i] = x})

----------------------------------------------------------------------------
(* Characters.                                                             *)

Digits == <<"0", "1", "2", "3", "4", "5", "6", "7", "8", "9">>
DigitChars == Range(Digits)
Letters == {"a", "b", "c", "d", "e", "f", "g", "h", "i", "j", "k", "l", "m",
            "n", "o", "p", "q", "r", "s", "t", "u", "v", "w", "x", "y", "z",
            "A", "B", "C", "D", "E", "F", "G", "H", "I", "J", "K", "L", "M",
            "N", "O", "P", "Q", "R", "S", "T", "U", "V", "W", "X", "Y", "Z"}

\* \w of a JavaScript regular expression: [A-Za-z0-9_]
IsWordChar(c) == c \in Letters \cup DigitChars \cup {"_"}
\* [0-9]
IsDigit(c) == c \in DigitChars

DigitVal(c) == CHOOSE d \in 0..9 : Digits[d + 1] = c

\* `${n}` for a non-negative integer
RECURSIVE NumberToString(_)
NumberToString(n) ==
    IF n < 10 THEN <<Digits[n + 1]>>
    ELSE NumberToString(n \div 10) \o <<Digits[(n % 10) + 1]>>

\* Number(text) for a text of decimal digits
RECURSIVE StringToNumber(_)
StringToNumber(t) ==
    IF t = <<>> THEN 0
    ELSE 10 * StringToNumber(SubSeq(t, 1, Len(t) - 1)) + DigitVal(t[Len(t)])

----------------------------------------------------------------------------
(* Path segments: PathSegment = string | number.                           *)

KeySeg(name) == [isNum |-> FALSE, name |-> name, num |-> 0]
IdxSeg(n) == [isNum |-> TRUE, name |-> <<>>, num |-> n]

----------------------------------------------------------------------------
(* Path codec: buildPathKey / parsePathKey.                                *)

\* One iteration of segments.forEach in buildPathKey, over the array `parts`.
RECURSIVE BuildParts(_, _)
BuildParts(segs, parts) ==
    IF segs = <<>> THEN parts
    ELSE LET seg == Head(segs)
         IN  IF seg.isNum
             THEN \* const prev = parts.pop() || ''; parts.push(`${prev}[${seg}]`)
                  LET prev == IF parts = <<>> THEN <<>> ELSE parts[Len(parts)]
                      rest == IF parts = <<>> THEN <<>>
                              ELSE SubSeq(parts, 1, Len(parts) - 1)
                  IN  BuildParts(Tail(segs),
                          Append(rest, prev \o <<"[">> \o NumberToString(seg.num) \o <<"]">>))
             ELSE \* parts.push(parts.length ? `.${seg}` : seg)
                  BuildParts(Tail(segs),
                      Append(parts, IF parts # <<>> THEN <<".">> \o seg.name ELSE seg.name))

buildPathKey(segs) == Concat(BuildParts(segs, <<>>))

\* String.prototype.split(sep) for a one-character separator.
RECURSIVE SplitFrom(_, _, _)
SplitFrom(s, sep, cur) ==
    IF s = <<>> THEN <<cur>>
    ELSE IF Head(s) = sep THEN <<cur>> \o SplitFrom(Tail(s), sep, <<>>)
    ELSE SplitFrom(Tail(s), sep, Append(cur, Head(s)))

Split(s, sep) == SplitFrom(s, sep, <<>>)

\* Array.prototype.join(sep) for a one-character separator.
RECURSIVE Join(_, _)
Join(ss, sep) ==
    IF ss = <<>> THEN <<>>
    ELSE IF Len(ss) = 1 THEN ss[1]
    ELSE ss[1] \o <<sep>> \o Join(Tail(ss), sep)

\* Last position of the maximal run of characters satisfying a class that
\* starts at position j (j - 1 when the run is empty).
RECURSIVE WordRunEnd(_, _)
WordRunEnd(s, j) ==
    IF j <= Len(s) /\ IsWordChar(s[j]) THEN WordRunEnd(s, j + 1) ELSE j - 1

RECURSIVE DigitRunEnd(_, _)
DigitRunEnd(s, j) ==
    IF j <= Len(s) /\ IsDigit(s[j]) THEN DigitRunEnd(s, j + 1) ELSE j - 1

\* \[[0-9]+\] anchored at position p: the position of its "]", or 0.
BracketGroupEnd(s, p) ==
    IF p <= Len(s) /\ s[p] = "["
    THEN LET q == DigitRunEnd(s, p + 1)
         IN  IF q >= p + 1 /\ q + 1 <= Len(s) /\ s[q + 1] = "]" THEN q + 1 ELSE 0
    ELSE 0

\* (\[[0-9]+\])* anchored at position p, greedy: <<end of the repetition,
\* start of the last repetition (0 when there is none)>>.  A capture group
\* under * keeps only its last repetition.
RECURSIVE BracketStar(_, _, _)
BracketStar(s, p, lastStart) ==
    LET e == BracketGroupEnd(s, p)
    IN  IF e = 0 THEN <<p - 1, lastStart>> ELSE BracketStar(s, e + 1, p)

\* while ((bm = /\[([0-9]+)\]/g.exec(bracketStr)) !== null) push(Number(bm[1]))
RECURSIVE BracketNumbers(_, _)
BracketNumbers(s, i) ==
    IF i > Len(s) THEN <<>>
    ELSE LET e == BracketGroupEnd(s, i)
         IN  IF e = 0 THEN BracketNumbers(s, i + 1)
             ELSE <<IdxSeg(StringToNumber(SubSeq(s, i + 1, e - 1)))>>
                  \o BracketNumbers(s, e + 1)

\* while ((m = /(\w+)(\[[0-9]+\])*/g.exec(part)) !== null) { ... } from lastIndex i
RECURSIVE ScanPart(_, _)
ScanPart(part, i) ==
    IF i > Len(part) THEN <<>>
    ELSE IF ~IsWordChar(part[i]) THEN ScanPart(part, i + 1)
    ELSE LET nameEnd == WordRunEnd(part, i)
             name == SubSeq(part, i, nameEnd)                       \* m[1]
             star == BracketStar(part, nameEnd + 1, 0)
             bracketStr == IF star[2] = 0 THEN <<>>                 \* m[2] || ''
                           ELSE SubSeq(part, star[2], star[1])
         IN  <<KeySeg(name)>> \o BracketNumbers(bracketStr, 1)
             \o ScanPart(part, star[1] + 1)

RECURSIVE ScanParts(_)
ScanParts(parts) ==
    IF parts = <<>> THEN <<>> ELSE ScanPart(Head(parts), 1) \o ScanParts(Tail(parts))

parsePathKey(key) == ScanParts(Split(key, "."))

----------------------------------------------------------------------------
(* JSON values.  An object is the sequence of its keys in Object.keys      *)
(* order with the parallel sequence of its values; `str` holds the text of *)
(* a string and the literal of a number or boolean.                        *)

JString(s) == [kind |-> "string", str |-> s, keys |-> <<>>, items |-> <<>>]
JNumber(lit) == [kind |-> "number", str |-> lit, keys |-> <<>>, items |-> <<>>]
JBoolean(lit) == [kind |-> "boolean", str |-> lit, keys |-> <<>>, items |-> <<>>]
JNull == [kind |-> "null", str |-> <<>>, keys |-> <<>>, items |-> <<>>]
JArray(items) == [kind |-> "array", str |-> <<>>, keys |-> <<>>, items |-> items]
JObject(keys, items) == [kind |-> "object", str |-> <<>>, keys |-> keys, items |-> items]
\* the value `undefined` (never part of a parsed document)
JUndefined == [kind |-> "undefined", str |-> <<>>, keys |-> <<>>, items |-> <<>>]

isPlainObject(val) == val.kind = "object"
isString(val) == val.kind = "string"
isArray(val) == val.kind = "array"

\* Array.isArray(v) ? 'array' : typeof v
TypeOf(v) ==
    CASE v.kind = "array" -> "array"
      [] v.kind = "null" -> "object"
      [] OTHER -> v.kind

\* A function value, and Object.prototype: the prototype of every object of
\* a parsed document, itself an object with no enumerable key, marked by its
\* `str`.
JFunction == [kind |-> "function", str |-> <<>>, keys |-> <<>>, items |-> <<>>]
ObjectPrototype ==
    [kind |-> "object", str |-> <<"Object.prototype">>, keys |-> <<>>, items |-> <<>>]

\* The methods of Object.prototype, and its accessor __proto__.
PrototypeMethods ==
    {<<"c", "o", "n", "s", "t", "r", "u", "c", "t", "o", "r">>,
     <<"h", "a", "s", "O", "w", "n", "P", "r", "o", "p", "e", "r", "t", "y">>,
     <<"i", "s", "P", "r", "o", "t", "o", "t", "y", "p", "e", "O", "f">>,
     <<"p", "r", "o", "p", "e", "r", "t", "y", "I", "s", "E", "n", "u", "m", "e", "r", "a", "b", "l", "e">>,
     <<"t", "o", "L", "o", "c", "a", "l", "e", "S", "t", "r", "i", "n", "g">>,
     <<"t", "o", "S", "t", "r", "i", "n", "g">>,
     <<"v", "a", "l", "u", "e", "O", "f">>,
     <<"_", "_", "d", "e", "f", "i", "n", "e", "G", "e", "t", "t", "e", "r", "_", "_">>,
     <<"_", "_", "d", "e", "f", "i", "n", "e", "S", "e", "t", "t", "e", "r", "_", "_">>,
     <<"_", "_", "l", "o", "o", "k", "u", "p", "G", "e", "t", "t", "e", "r", "_", "_">>,
     <<"_", "_", "l", "o", "o", "k", "u", "p", "S", "e", "t", "t", "e", "r", "_", "_">>}
ProtoName == <<"_", "_", "p", "r", "o", "t", "o", "_", "_">>

\* The own enumerable keys of a plain object, and the value of an own key
HasKey(obj, k) == \E i \in 1..Len(obj.keys) : obj.keys[i] = k
GetKey(obj, k) == obj.items[CHOOSE i \in 1..Len(obj.keys) : obj.keys[i] = k]

\* `k in obj` and obj[k] of a plain object: an own key, or a member inherited
\* from (or, for Object.prototype itself, owned by) Object.prototype
HasProperty(obj, k) == HasKey(obj, k) \/ k \in PrototypeMethods \cup {ProtoName}
GetProperty(obj, k) ==
    IF HasKey(obj, k) THEN GetKey(obj, k)
    ELSE IF k \in PrototypeMethods THEN JFunction
    ELSE IF k = ProtoName THEN (IF obj = ObjectPrototype THEN JNull ELSE ObjectPrototype)
    ELSE JUndefined

\* obj[k] = v: an existing key keeps its place, a new key is enumerated last
SetKey(obj, k, v) ==
    IF HasKey(obj, k)
    THEN JObject(obj.keys,
                 [i \in 1..Len(obj.items) |-> IF obj.keys[i] = k THEN v ELSE obj.items[i]])
    ELSE JObject(Append(obj.keys, k), Append(obj.items, v))

----------------------------------------------------------------------------
(* Value resolver and tree walker (utils/jsonPath).                        *)

MAX_NODES == 1000000

RECURSIVE WalkSegs(_, _)
WalkSegs(cur, segs) ==
    IF segs = <<>> THEN cur
    ELSE LET s == Head(segs)
         IN  IF s.isNum
             THEN IF ~isArray(cur) \/ s.num < 0 \/ s.num >= Len(cur.items)
                  THEN JUndefined
                  ELSE WalkSegs(cur.items[s.num + 1], Tail(segs))
             ELSE IF ~isPlainObject(cur) \/ ~HasProperty(cur, s.name)
                  THEN JUndefined
                  ELSE WalkSegs(GetProperty(cur, s.name), Tail(segs))

getByPath(root, key) == WalkSegs(root, parsePathKey(key))

\* PushChildren with the loop running upwards, so that the last child is
\* popped first
PushChildren_Upwards(stack, node, path) ==
    LET n == Len(node.items)
    IN  stack \o [i \in 1..n |->
                    [node |-> node.items[i],
                     path |-> Append(path, IF isArray(node) THEN IdxSeg(i - 1)
                                           ELSE KeySeg(node.keys[i]))]]

\* The children of a container pushed so that the first child is popped
\* first: for (let i = length - 1; i >= 0; i--) stack.push(...)
PushChildren(stack, node, path) ==
    LET n == Len(node.items)
    IN  stack \o [j \in 1..n |->
                    LET i == n + 1 - j
                    IN  [node |-> node.items[i],
                         path |-> Append(path, IF isArray(node) THEN IdxSeg(i - 1)
                                               ELSE KeySeg(node.keys[i]))]]

\* The while loop of collectStringPaths, with the value of its MAX_NODES as
\* `cap`.  `leaves` is a ghost list of the string leaves in the order their
\* keys were pushed onto `result`.
RECURSIVE CollectLoop(_, _, _, _, _)
CollectLoop(stack, iter, result, leaves, cap) ==
    IF stack = <<>> THEN [threw |-> FALSE, result |-> result, leaves |-> leaves]
    ELSE LET top == stack[Len(stack)]
             rest == SubSeq(stack, 1, Len(stack) - 1)
         IN  IF iter + 1 > cap
             THEN [threw |-> TRUE, result |-> <<>>, leaves |-> <<>>]
             ELSE IF isString(top.node)
             THEN CollectLoop(rest, iter + 1, Append(result, buildPathKey(top.path)),
                              Append(leaves, top.node), cap)
             ELSE IF isArray(top.node) \/ isPlainObject(top.node)
             THEN CollectLoop(PushChildren(rest, top.node, top.path), iter + 1,
                              result, leaves, cap)
             ELSE CollectLoop(rest, iter + 1, result, leaves, cap)

\* collectStringPaths as it runs with a node cap of `cap`
collectStringPathsWithCap(root, cap) ==
    CollectLoop(<<[node |-> root, path |-> <<>>]>>, 0, <<>>, <<>>, cap)

collectStringPaths(root) == collectStringPathsWithCap(root, MAX_NODES)

----------------------------------------------------------------------------
(* Translation map and diagnostics (utils/matcher).                        *)

MAP_MAX_NODES == 1000000

\* The while loop of buildTranslationMapFromJson, with the value of its
\* MAX_NODES as `cap`; the map is a plain object.  Exceeding the cap leaves
\* the loop (break) and the map built so far is returned.
RECURSIVE MapLoop(_, _, _, _)
MapLoop(stack, iter, map, cap) ==
    IF stack = <<>> THEN map
    ELSE LET top == stack[Len(stack)]
             rest == SubSeq(stack, 1, Len(stack) - 1)
         IN  IF iter + 1 > cap THEN map
             ELSE IF top.node.kind = "string"
             THEN MapLoop(rest, iter + 1, SetKey(map, buildPathKey(top.path), top.node),
                          cap)
             ELSE IF top.node.kind = "array" \/ top.node.kind = "object"
             THEN MapLoop(PushChildren(rest, top.node, top.path), iter + 1, map, cap)
             ELSE MapLoop(rest, iter + 1, map, cap)

\* buildTranslationMapFromJson as it runs with a node cap of `cap`
buildTranslationMapWithCap(translationDoc, cap) ==
    MapLoop(<<[node |-> translationDoc, path |-> <<>>]>>, 0, JObject(<<>>, <<>>), cap)

buildTranslationMapFromJson(translationDoc) ==
    buildTranslationMapWithCap(translationDoc, MAP_MAX_NODES)

\* OrigLoop with the kinds compared by === instead of !==
RECURSIVE OrigLoop_EqualKinds(_, _, _, _, _)
OrigLoop_EqualKinds(origPaths, transSet, orig, trans, acc) ==
    IF origPaths = <<>> THEN acc
    ELSE LET p == Head(origPaths)
         IN  IF p \notin transSet
             THEN OrigLoop_EqualKinds(Tail(origPaths), transSet, orig, trans,
                      [acc EXCEPT !.missingPaths = Append(@, p)])
             ELSE LET ot == TypeOf(getByPath(orig, p))
                      tt == TypeOf(getByPath(trans, p))
                  IN  OrigLoop_EqualKinds(Tail(origPaths), transSet, orig, trans,
                          IF ot = tt
                          THEN [acc EXCEPT !.typeMismatches =
                                   Append(@, [path |-> p, originalType |-> ot,
                                              translationType |-> tt])]
                          ELSE acc)

\* OrigLoop testing membership in the source's own path set, so that no
\* source path is ever missing
RECURSIVE OrigLoop_OwnSet(_, _, _, _, _)
OrigLoop_OwnSet(origPaths, transSet, orig, trans, acc) ==
    IF origPaths = <<>> THEN acc
    ELSE LET p == Head(origPaths)
         IN  IF p \notin Range(origPaths)
             THEN OrigLoop_OwnSet(Tail(origPaths), transSet, orig, trans,
                      [acc EXCEPT !.missingPaths = Append(@, p)])
             ELSE LET ot == TypeOf(getByPath(orig, p))
                      tt == TypeOf(getByPath(trans, p))
                  IN  OrigLoop_OwnSet(Tail(origPaths), transSet, orig, trans,
                          IF ot # tt
                          THEN [acc EXCEPT !.typeMismatches =
                                   Append(@, [path |-> p, originalType |-> ot,
                                              translationType |-> tt])]
                          ELSE acc)

\* for (const p of origPaths) { ... } of diagnoseMatch
RECURSIVE OrigLoop(_, _, _, _, _)
OrigLoop(origPaths, transSet, orig, trans, acc) ==
    IF origPaths = <<>> THEN acc
    ELSE LET p == Head(origPaths)
         IN  IF p \notin transSet
             THEN OrigLoop(Tail(origPaths), transSet, orig, trans,
                      [acc EXCEPT !.missingPaths = Append(@, p)])
             ELSE LET ot == TypeOf(getByPath(orig, p))
                      tt == TypeOf(getByPath(trans, p))
                  IN  OrigLoop(Tail(origPaths), transSet, orig, trans,
                          IF ot # tt
                          THEN [acc EXCEPT !.typeMismatches =
                                   Append(@, [path |-> p, originalType |-> ot,
                                              translationType |-> tt])]
                          ELSE acc)

\* TransLoop without the membership test: every translation path is extra
RECURSIVE TransLoop_NoTest(_, _)
TransLoop_NoTest(transPaths, origSet) ==
    IF transPaths = <<>> THEN <<>>
    ELSE <<Head(transPaths)>> \o TransLoop_NoTest(Tail(transPaths), origSet)

\* for (const p of transPaths) if (!origSet.has(p)) extraPaths.push(p)
RECURSIVE TransLoop(_, _)
TransLoop(transPaths, origSet) ==
    IF transPaths = <<>> THEN <<>>
    ELSE (IF Head(transPaths) \notin origSet THEN <<Head(transPaths)>> ELSE <<>>)
         \o TransLoop(Tail(transPaths), origSet)

\* diagnoseMatch as it runs when collectStringPaths has a node cap of `cap`;
\* an exception of collectStringPaths is not caught
diagnoseMatchWithCap(orig, trans, cap) ==
    LET o == collectStringPathsWithCap(orig, cap)
        t == collectStringPathsWithCap(trans, cap)
    IN  IF o.threw \/ t.threw
        THEN [threw |-> TRUE, missingPaths |-> <<>>, extraPaths |-> <<>>,
              typeMismatches |-> <<>>]
        ELSE LET origSet == Range(o.result)
                 transSet == Range(t.result)
                 looped == OrigLoop(o.result, transSet, orig, trans,
                               [missingPaths |-> <<>>, typeMismatches |-> <<>>])
             IN  [threw |-> FALSE,
                  missingPaths |-> looped.missingPaths,
                  extraPaths |-> TransLoop(t.result, origSet),
                  typeMismatches |-> looped.typeMismatches]

diagnoseMatch(orig, trans) == diagnoseMatchWithCap(orig, trans, MAX_NODES)

----------------------------------------------------------------------------
(* Bilingual extraction (App.tsx).                                         *)

\* Characters matched by \s and removed by String.prototype.trim; a character
\* outside the printable ASCII range is named by its code point.
WhitespaceChars == {" ", "U+0009", "U+000A", "U+000D", "U+00A0", "U+3000", "U+FEFF"}
IsWhitespace(c) == c \in WhitespaceChars

RECURSIVE TrimStart(_)
TrimStart(s) == IF s # <<>> /\ IsWhitespace(Head(s)) THEN TrimStart(Tail(s)) ELSE s

RECURSIVE TrimEnd(_)
TrimEnd(s) ==
    IF s # <<>> /\ IsWhitespace(s[Len(s)]) THEN TrimEnd(SubSeq(s, 1, Len(s) - 1)) ELSE s

Trim(s) == TrimEnd(TrimStart(s))

\* TranslatedHalf taking parts[1] only, so that later '|' parts are lost
TranslatedHalf_SecondPartOnly(parts) == Trim(parts[2])

\* parts.slice(1).join('|').trim() of a string already split on '|'
TranslatedHalf(parts) == Trim(Join(Tail(parts), "|"))

EnKey == <<"e", "n">>
CnKey == <<"c", "n">>

\* typeof v === 'object' && v && 'en' in v ? v.en : v
UnwrapEn(v) ==
    IF v.kind = "object" /\ HasKey(v, EnKey) THEN GetKey(v, EnKey) ELSE v

\* walk of extractBilingual: a string with a '|' comes back as the marker
\* object {en, cn}, which the parent replaces by its en.
RECURSIVE walk(_)
walk(node) ==
    IF node.kind = "string"
    THEN LET parts == Split(node.str, "|")
         IN  IF Len(parts) > 1
             THEN JObject(<<EnKey, CnKey>>,
                          <<JString(Trim(parts[1])), JString(TranslatedHalf(parts))>>)
             ELSE node
    ELSE IF node.kind = "array"
    THEN JArray([i \in 1..Len(node.items) |-> UnwrapEn(walk(node.items[i]))])
    ELSE IF node.kind = "object"
    THEN JObject(node.keys, [i \in 1..Len(node.items) |-> UnwrapEn(walk(node.items[i]))])
    ELSE node

\* for (const p of paths) { const val = getByPath(root, p); ... map[p] = ... }
RECURSIVE BilingualMapLoop(_, _, _)
BilingualMapLoop(paths, root, map) ==
    IF paths = <<>> THEN map
    ELSE LET p == Head(paths)
             val == getByPath(root, p)
             parts == IF val.kind = "string" THEN Split(val.str, "|") ELSE <<>>
         IN  BilingualMapLoop(Tail(paths), root,
                 IF val.kind = "string" /\ Len(parts) > 1
                 THEN SetKey(map, p, JString(TranslatedHalf(parts)))
                 ELSE map)

extractBilingual(root) ==
    LET paths == collectStringPaths(root)
    IN  IF paths.threw
        THEN [threw |-> TRUE, original |-> JUndefined, map |-> JUndefined]
        ELSE [threw |-> FALSE,
              original |-> walk(root),
              map |-> BilingualMapLoop(paths.result, root, JObject(<<>>, <<>>))]

----------------------------------------------------------------------------
(* Duplicate titles (utils/matcher).                                       *)

TITLE_MAX_NODES == 1000000

\* title.length > 64 ? title.slice(0, 64) : title
TitleKeyLength == 64

\* path.map(s => typeof s === 'number' ? `[${s}]` : `.${s}`).join('')
\*     .replace(/^\./, '')
TitlePathKey(path) ==
    LET joined == Concat([i \in 1..Len(path) |->
                             IF path[i].isNum
                             THEN <<"[">> \o NumberToString(path[i].num) \o <<"]">>
                             ELSE <<".">> \o path[i].name])
    IN  IF joined # <<>> /\ Head(joined) = "." THEN Tail(joined) ELSE joined

\* for (const k of Object.keys(node)) stack.push(...): the keys are pushed in
\* enumeration order, so the last key is popped first
PushKeysForward(stack, node, path) ==
    stack \o [i \in 1..Len(node.keys) |->
                 [node |-> node.items[i], path |-> Append(path, KeySeg(node.keys[i]))]]

\* dupIndex[key] = dupIndex[key] || []; dupIndex[key].push(pk), dupIndex being
\* the sequence of its entries in Object.entries order
DupIndexPush(dupIndex, key, pk) ==
    IF \E i \in 1..Len(dupIndex) : dupIndex[i].title = key
    THEN [i \in 1..Len(dupIndex) |->
             IF dupIndex[i].title = key
             THEN [dupIndex[i] EXCEPT !.paths = Append(@, pk)]
             ELSE dupIndex[i]]
    ELSE Append(dupIndex, [title |-> key, paths |-> <<pk>>])

\* The while loop of findTitleDuplicates, with the value of its MAX_NODES as
\* `cap`.  Exceeding the cap leaves the loop (break).
RECURSIVE TitleLoop(_, _, _, _)
TitleLoop(stack, iter, dupIndex, cap) ==
    IF stack = <<>> THEN dupIndex
    ELSE LET top == stack[Len(stack)]
             rest == SubSeq(stack, 1, Len(stack) - 1)
         IN  IF iter + 1 > cap THEN dupIndex
             ELSE IF top.node.kind = "string"
             THEN LET title == Trim(top.node.str)
                      key == IF Len(title) > TitleKeyLength
                             THEN SubSeq(title, 1, TitleKeyLength) ELSE title
                  IN  TitleLoop(rest, iter + 1,
                          IF title # <<>>
                          THEN DupIndexPush(dupIndex, key, TitlePathKey(top.path))
                          ELSE dupIndex,
                          cap)
             ELSE IF isArray(top.node)
             THEN TitleLoop(PushChildren(rest, top.node, top.path), iter + 1, dupIndex, cap)
             ELSE IF isPlainObject(top.node)
             THEN TitleLoop(PushKeysForward(rest, top.node, top.path), iter + 1,
                            dupIndex, cap)
             ELSE TitleLoop(rest, iter + 1, dupIndex, cap)

\* findTitleDuplicates as it runs with a node cap of `cap`: the entries of
\* dupIndex with more than one path
findTitleDuplicatesWithCap(json, cap) ==
    SelectSeq(TitleLoop(<<[node |-> json, path |-> <<>>]>>, 0, <<>>, cap),
              LAMBDA e : Len(e.paths) > 1)

findTitleDuplicates(json) == findTitleDuplicatesWithCap(json, TITLE_MAX_NODES)

----------------------------------------------------------------------------
(* String normalizer (validator.js).  A matcher is the set of characters   *)
(* it matches; null is a matcher not yet built.                            *)

NullRegex == [built |-> FALSE, chars |-> {}]

\* this.separators: | and fullwidth |, / and fullwidth /, hyphen, em dash,
\* en dash, middle dot, katakana middle dot, ideographic comma, : and
\* fullwidth :, ; and fullwidth ;
separators == <<"|", "U+FF5C", "/", "U+FF0F", "-", "U+2014", "U+2013", "U+00B7",
                "U+30FB", "U+3001", ":", "U+FF1A", ";", "U+FF1B">>

\* Characters of Script=Han among the characters of the model.
HanChars == {"U+4E2D"}

\* Compatibility decomposition of one character (the identity elsewhere):
\* fullwidth forms and wide spaces fold to ASCII, a precomposed letter
\* decomposes to its base letter and combining mark.
Decompose(c) ==
    CASE c = "U+FF5C" -> <<"|">>
      [] c = "U+FF0F" -> <<"/">>
      [] c = "U+FF1A" -> <<":">>
      [] c = "U+FF1B" -> <<";">>
      [] c = "U+3000" -> <<" ">>
      [] c = "U+00A0" -> <<" ">>
      [] c = "U+00E1" -> <<"a", "U+0301">>
      [] OTHER -> <<c>>

\* Canonical composition: a base letter directly followed by its combining
\* mark becomes the precomposed letter.
RECURSIVE Compose(_)
Compose(s) ==
    IF s = <<>> THEN <<>>
    ELSE IF Len(s) >= 2 /\ s[1] = "a" /\ s[2] = "U+0301"
    THEN <<"U+00E1">> \o Compose(SubSeq(s, 3, Len(s)))
    ELSE <<Head(s)>> \o Compose(Tail(s))

\* String.prototype.normalize('NFKC')
NFKC(s) == Compose(Concat([i \in 1..Len(s) |-> Decompose(s[i])]))

\* new RegExp(`\\s*(?:${union})\\s*`, 'gu')
buildSepRegex(seps) == [built |-> TRUE, chars |-> Range(seps)]

\* getChineseRegex on a runtime with Unicode property escapes, where
\* new RegExp('\\p{Script=Han}', 'gu') does not throw.
getChineseRegex(cur) == IF cur.built THEN cur ELSE [built |-> TRUE, chars |-> HanChars]

\* s.replace(zh, '')
RemoveMatches(s, re) == SelectSeq(s, LAMBDA c : c \notin re.chars)

RECURSIVE WhitespaceRunEnd(_, _)
WhitespaceRunEnd(s, j) ==
    IF j <= Len(s) /\ IsWhitespace(s[j]) THEN WhitespaceRunEnd(s, j + 1) ELSE j - 1

\* s.replace(/\s*(?:sep)\s*/gu, ''): at position i the pattern matches when
\* the whitespace run starting at i is followed by a separator; the match
\* then runs to the end of the whitespace that follows the separator.
RECURSIVE ReplaceSeps(_, _, _)
ReplaceSeps(s, re, i) ==
    IF i > Len(s) THEN <<>>
    ELSE LET w == WhitespaceRunEnd(s, i)
         IN  IF w + 1 <= Len(s) /\ s[w + 1] \in re.chars
             THEN ReplaceSeps(s, re, WhitespaceRunEnd(s, w + 2) + 1)
             ELSE <<s[i]>> \o ReplaceSeps(s, re, i + 1)

\* s.replace(/\s+/g, ' ')
RECURSIVE CollapseWhitespace(_, _)
CollapseWhitespace(s, i) ==
    IF i > Len(s) THEN <<>>
    ELSE IF IsWhitespace(s[i])
    THEN <<" ">> \o CollapseWhitespace(s, WhitespaceRunEnd(s, i) + 1)
    ELSE <<s[i]>> \o CollapseWhitespace(s, i + 1)

\* cleanTranslatedValue without the final .trim()
cleanTranslatedValue_NoTrim(v, zh, sep) ==
    CollapseWhitespace(ReplaceSeps(RemoveMatches(NFKC(v), zh), sep, 1), 1)

\* cleanTranslatedValue of a string (a non-string value is returned as it
\* is, line 204), with the two matchers it ends up using
cleanTranslatedValue(v, zh, sep) ==
    Trim(CollapseWhitespace(ReplaceSeps(RemoveMatches(NFKC(v), zh), sep, 1), 1))

----------------------------------------------------------------------------
(* Strict comparator of the web validator (validator.js).                  *)

\* typeof v
Typeof(v) ==
    CASE v.kind \in {"array", "null", "object"} -> "object"
      [] OTHER -> v.kind

\* Object.assign(target, source)
RECURSIVE ObjectAssign(_, _)
ObjectAssign(target, source) ==
    IF source.keys = <<>> THEN target
    ELSE ObjectAssign(SetKey(target, Head(source.keys), Head(source.items)),
                      JObject(Tail(source.keys), Tail(source.items)))

\* The path of child i (counted from 1) of a container under `prefix`; an
\* empty prefix is falsy.
ChildPath(obj, prefix, i) ==
    IF obj.kind = "array"
    THEN (IF prefix # <<>> THEN prefix ELSE <<>>)
         \o <<"[">> \o NumberToString(i - 1) \o <<"]">>
    ELSE IF prefix # <<>> THEN prefix \o <<".">> \o obj.keys[i] ELSE obj.keys[i]

\* flattenJSON(obj, prefix); FlattenJSONFrom is its forEach from child i on.
\* result[path] = item is modelled for paths other than '__proto__', which no
\* document of the model has as a key.
RECURSIVE flattenJSON(_, _)
RECURSIVE FlattenJSONFrom(_, _, _, _)
FlattenJSONFrom(obj, prefix, i, result) ==
    IF i > Len(obj.items) THEN result
    ELSE LET item == obj.items[i]
             path == ChildPath(obj, prefix, i)
         IN  FlattenJSONFrom(obj, prefix, i + 1,
                 IF Typeof(item) = "object" /\ item # JNull
                 THEN ObjectAssign(result, flattenJSON(item, path))
                 ELSE SetKey(result, path, item))

flattenJSON(obj, prefix) ==
    IF obj.kind = "array" THEN FlattenJSONFrom(obj, prefix, 1, JObject(<<>>, <<>>))
    ELSE IF Typeof(obj) = "object" /\ obj # JNull
    THEN FlattenJSONFrom(obj, prefix, 1, JObject(<<>>, <<>>))
    ELSE SetKey(JObject(<<>>, <<>>), IF prefix # <<>> THEN prefix ELSE <<"$">>, obj)

\* cleanTranslatedObject(obj) with the two matchers of the validator: strings
\* are cleaned, other scalars kept, containers rebuilt child by child
RECURSIVE cleanTranslatedObject(_, _, _)
cleanTranslatedObject(obj, zh, sep) ==
    IF Typeof(obj) # "object" \/ obj = JNull
    THEN (IF obj.kind = "string" THEN JString(cleanTranslatedValue(obj.str, zh, sep))
          ELSE obj)
    ELSE IF obj.kind = "array"
    THEN JArray([i \in 1..Len(obj.items) |-> cleanTranslatedObject(obj.items[i], zh, sep)])
    ELSE JObject(obj.keys,
                 [i \in 1..Len(obj.items) |-> cleanTranslatedObject(obj.items[i], zh, sep)])

\* One entry of errors or warnings: its type and path.
Finding(type, path) == [type |-> type, path |-> path]

\* Object.keys(originalFlat).forEach(path => ...) of compareJSON
RECURSIVE CompareJSONErrors(_, _, _)
CompareJSONErrors(paths, originalFlat, translatedFlat) ==
    IF paths = <<>> THEN <<>>
    ELSE LET path == Head(paths)
             ov == GetProperty(originalFlat, path)
             tv == GetProperty(translatedFlat, path)
         IN  (IF ~HasProperty(translatedFlat, path) THEN <<Finding("missing", path)>>
              ELSE IF Typeof(ov) # Typeof(tv) THEN <<Finding("type_mismatch", path)>>
              ELSE IF ov # tv THEN <<Finding("value_mismatch", path)>>
              ELSE <<>>)
             \o CompareJSONErrors(Tail(paths), originalFlat, translatedFlat)

\* Object.keys(translatedFlat).forEach(path => ...): the extra paths
RECURSIVE ExtraWarnings(_, _)
ExtraWarnings(paths, originalFlat) ==
    IF paths = <<>> THEN <<>>
    ELSE (IF ~HasProperty(originalFlat, Head(paths))
          THEN <<Finding("extra", Head(paths))>> ELSE <<>>)
         \o ExtraWarnings(Tail(paths), originalFlat)

\* Whether cleanTranslatedObject(obj) reaches a string, and so the two
\* matchers: cleanTranslatedValue returns a non-string before using them
RECURSIVE HasString(_)
HasString(obj) ==
    obj.kind = "string" \/ \E i \in 1..Len(obj.items) : HasString(obj.items[i])

compareJSON(orig, trans, zh, sep) ==
    LET originalFlat == flattenJSON(orig, <<>>)
        cleanedTranslated == cleanTranslatedObject(trans, zh, sep)
        translatedFlat == flattenJSON(cleanedTranslated, <<>>)
    IN  [errors |-> CompareJSONErrors(originalFlat.keys, originalFlat, translatedFlat),
         warnings |-> ExtraWarnings(translatedFlat.keys, originalFlat)]

----------------------------------------------------------------------------
(* One JSONValidator (validator.js): `this` is the record of its fields.   *)

\* validationResults = null
NoResults == <<>>

\* new JSONValidator()
NewValidator ==
    [originalJson |-> JNull, translatedJson |-> JNull, validationResults |-> NoResults,
     sepRegex |-> NullRegex, chineseRegex |-> NullRegex]

\* !doc for a parsed document
Falsy(doc) ==
    \/ doc.kind = "null"
    \/ doc.kind = "boolean" /\ doc.str = <<"f", "a", "l", "s", "e">>
    \/ doc.kind = "number" /\ doc.str = <<"0">>
    \/ doc.kind = "string" /\ doc.str = <<>>

\* this.cleanTranslatedValue(v): the fields afterwards and the value returned
CleanTranslatedValueCall(this, v) ==
    IF v.kind # "string" THEN [this |-> this, result |-> v]
    ELSE LET zh == getChineseRegex(this.chineseRegex)
             sep == IF ~this.sepRegex.built THEN buildSepRegex(separators)
                    ELSE this.sepRegex
         IN  [this |-> [this EXCEPT !.chineseRegex = zh, !.sepRegex = sep],
              result |-> JString(cleanTranslatedValue(v.str, zh, sep))]

\* this.compareJSON(orig, trans): cleanTranslatedObject calls
\* cleanTranslatedValue on every scalar of the translation
CompareJSONCall(this, orig, trans) ==
    LET after == IF HasString(trans)
                 THEN CleanTranslatedValueCall(this, JString(<<>>)).this ELSE this
    IN  [this |-> after,
         result |-> compareJSON(orig, trans, getChineseRegex(this.chineseRegex),
                                IF ~this.sepRegex.built THEN buildSepRegex(separators)
                                ELSE this.sepRegex)]

\* this.validate(), without what it writes to the page
validate(this) ==
    IF Falsy(this.originalJson) \/ Falsy(this.translatedJson) THEN this
    ELSE LET c == CompareJSONCall(this, this.originalJson, this.translatedJson)
         IN  [c.this EXCEPT !.validationResults = c.result]

\* clearAll that also drops the two matchers
clearAll_DropMatchers(this) ==
    [this EXCEPT !.originalJson = JNull, !.translatedJson = JNull,
                 !.validationResults = NoResults,
                 !.sepRegex = NullRegex, !.chineseRegex = NullRegex]

\* this.clearAll(), without what it writes to the page
clearAll(this) ==
    [this EXCEPT !.originalJson = JNull, !.translatedJson = JNull,
                 !.validationResults = NoResults]

\* handleTextInput(value, type) for a text that parses to `json`
handleTextInput(this, json, type) ==
    IF type = "original" THEN [this EXCEPT !.originalJson = json]
    ELSE [this EXCEPT !.translatedJson = json]

----------------------------------------------------------------------------
(* Standalone validator (scripts/validate-json.mjs).                       *)

Dashes == <<"-", "-">>
StartsWith(s, prefix) == Len(s) >= Len(prefix) /\ SubSeq(s, 1, Len(prefix)) = prefix

\* The values an entry of `args` can have: none, true, or a string.
ArgNone == [kind |-> "undefined", str |-> <<>>]
ArgTrue == [kind |-> "true", str |-> <<>>]
ArgString(t) == [kind |-> "string", str |-> t]
\* !!v
Truthy(v) == v.kind = "true" \/ (v.kind = "string" /\ v.str # <<>>)

NoArgs == [original |-> ArgNone, translated |-> ArgNone, seps |-> ArgNone]

\* args[key] = v, for the three keys main reads
SetArg(args, key, v) ==
    IF key = <<"o", "r", "i", "g", "i", "n", "a", "l">> THEN [args EXCEPT !.original = v]
    ELSE IF key = <<"t", "r", "a", "n", "s", "l", "a", "t", "e", "d">> THEN [args EXCEPT !.translated = v]
    ELSE IF key = <<"s", "e", "p", "s">> THEN [args EXCEPT !.seps = v]
    ELSE args

\* The for loop of parseArgs from token i on; `tokens` is process.argv
\* without the two entries that name the runtime and the script.
RECURSIVE ParseArgsFrom(_, _, _)
ParseArgsFrom(tokens, i, args) ==
    IF i > Len(tokens) THEN args
    ELSE LET a == tokens[i]
         IN  IF StartsWith(a, Dashes)
             THEN LET kv == Split(a, "=")
                      key == SubSeq(kv[1], 3, Len(kv[1]))
                  IN  IF Len(kv) >= 2
                      THEN ParseArgsFrom(tokens, i + 1, SetArg(args, key, ArgString(kv[2])))
                      ELSE IF i + 1 <= Len(tokens) /\ ~StartsWith(tokens[i + 1], Dashes)
                      THEN ParseArgsFrom(tokens, i + 2,
                                         SetArg(args, key, ArgString(tokens[i + 1])))
                      ELSE ParseArgsFrom(tokens, i + 1, SetArg(args, key, ArgTrue))
             ELSE ParseArgsFrom(tokens, i + 1,
                      IF ~Truthy(args.original) THEN [args EXCEPT !.original = ArgString(a)]
                      ELSE IF ~Truthy(args.translated)
                      THEN [args EXCEPT !.translated = ArgString(a)]
                      ELSE args)

parseArgs(tokens) == ParseArgsFrom(tokens, 1, NoArgs)

\* flatten(json, prefix) of the standalone validator; FlattenFrom is its for
\* loop from child i on.  out[p] = v is modelled for paths other than
\* '__proto__'.
RECURSIVE flatten(_, _)
RECURSIVE FlattenFrom(_, _, _, _)
FlattenFrom(json, prefix, i, out) ==
    IF i > Len(json.items) THEN out
    ELSE LET v == json.items[i]
             p == ChildPath(json, prefix, i)
         IN  FlattenFrom(json, prefix, i + 1,
                 IF isPlainObject(v) \/ isArray(v)
                 THEN ObjectAssign(out, flatten(v, p))
                 ELSE SetKey(out, p, v))

flatten(json, prefix) ==
    IF isArray(json) \/ isPlainObject(json)
    THEN FlattenFrom(json, prefix, 1, JObject(<<>>, <<>>))
    ELSE SetKey(JObject(<<>>, <<>>), IF prefix # <<>> THEN prefix ELSE <<"$">>, json)

\* String(str).replace(/[\p{Script=Han}]/gu, '')
removeChinese(str) == SelectSeq(str, LAMBDA c : c \notin HanChars)

\* new RegExp(`\\s*(?:${union})\\s*`, 'gu') over separators of any length:
\* the matcher is the list of its alternatives, tried in order
buildSepRegexOfList(seps) == [built |-> TRUE, alternatives |-> seps]

\* The length of the first alternative that matches s at position j, 0 when
\* none does.
SepMatchLen(s, j, re) ==
    LET hits == {k \in 1..Len(re.alternatives) :
                    /\ j + Len(re.alternatives[k]) - 1 <= Len(s)
                    /\ SubSeq(s, j, j + Len(re.alternatives[k]) - 1) = re.alternatives[k]}
    IN  IF hits = {} THEN 0
        ELSE Len(re.alternatives[CHOOSE k \in hits : \A h \in hits : k <= h])

\* noZh.replace(sepRegex, '')
RECURSIVE ReplaceSepList(_, _, _)
ReplaceSepList(s, re, i) ==
    IF i > Len(s) THEN <<>>
    ELSE LET w == WhitespaceRunEnd(s, i)
             n == SepMatchLen(s, w + 1, re)
         IN  IF n > 0
             THEN ReplaceSepList(s, re, WhitespaceRunEnd(s, w + 1 + n) + 1)
             ELSE <<s[i]>> \o ReplaceSepList(s, re, i + 1)

normalizeTranslated(str, re) == Trim(ReplaceSepList(removeChinese(str), re, 1))

\* JSON.stringify of a scalar, of null and of Object.prototype
Stringify(v) ==
    CASE v.kind = "null" -> <<"n", "u", "l", "l">>
      [] v.kind = "object" -> <<"{", "}">>
      [] v.kind = "string" -> <<"\"">> \o v.str \o <<"\"">>
      [] OTHER -> v.str

\* for (const key of Object.keys(originalFlat)) of compare
RECURSIVE CompareErrors(_, _, _, _)
CompareErrors(keys, originalFlat, translatedFlat, re) ==
    IF keys = <<>> THEN <<>>
    ELSE LET key == Head(keys)
             ov == GetProperty(originalFlat, key)
             tv == GetProperty(translatedFlat, key)
         IN  (IF ~HasProperty(translatedFlat, key) THEN <<Finding("missing", key)>>
              ELSE IF Typeof(ov) # Typeof(tv) THEN <<Finding("type_mismatch", key)>>
              ELSE IF Typeof(ov) = "string"
              THEN (IF normalizeTranslated(tv.str, re) # ov.str
                    THEN <<Finding("string_mismatch", key)>> ELSE <<>>)
              ELSE IF Stringify(tv) # Stringify(ov)
              THEN <<Finding("value_mismatch", key)>>
              ELSE <<>>)
             \o CompareErrors(Tail(keys), originalFlat, translatedFlat, re)

\* for (const key of Object.keys(translatedFlat)) of compare
RECURSIVE CompareWarnings(_, _)
CompareWarnings(keys, originalFlat) ==
    IF keys = <<>> THEN <<>>
    ELSE (IF ~HasProperty(originalFlat, Head(keys))
          THEN <<Finding("extra", Head(keys))>> ELSE <<>>)
         \o CompareWarnings(Tail(keys), originalFlat)

compare(originalFlat, translatedFlat, re) ==
    [errors |-> CompareErrors(originalFlat.keys, originalFlat, translatedFlat, re),
     warnings |-> CompareWarnings(translatedFlat.keys, originalFlat)]

\* seps of main: the --seps list (default '|') split at commas, trimmed,
\* without empty entries, with the fullwidth bar added when it is not there
SepList(args) ==
    LET sepArg == IF Truthy(args.seps)
                  THEN (IF args.seps.kind = "true" THEN <<"t", "r", "u", "e">>
                        ELSE args.seps.str)
                  ELSE <<"|">>
        parts == Split(sepArg, ",")
        seps == SelectSeq([i \in 1..Len(parts) |-> Trim(parts[i])], LAMBDA t : t # <<>>)
    IN  IF <<"U+FF5C">> \in Range(seps) THEN seps ELSE Append(seps, <<"U+FF5C">>)

\* A file of the working directory: its text parses to `doc`, or does not
\* parse.  readJson(p) succeeds when p names a file whose text parses.
JsonFile(doc) == [parses |-> TRUE, doc |-> doc]
GarbageFile == [parses |-> FALSE, doc |-> JNull]
CanReadJson(fs, name) == name \in DOMAIN fs /\ fs[name].parses

----------------------------------------------------------------------------
(* Line differencer (validator.js).                                        *)

LF == "U+000A"

\* lines[i] || '' (i counted from 1)
LineOrEmpty(lines, i) == IF i <= Len(lines) THEN lines[i] ELSE <<>>

DiffLine(content, type, i) == [content |-> content, type |-> type, lineNumber |-> i]

Max(a, b) == IF a >= b THEN a ELSE b

\* DiffAt with the last branch of the loop reporting two differing lines as
\* `removed` / `added`
DiffAt_NoModified(originalLines, translatedLines, i) ==
    LET origLine == LineOrEmpty(originalLines, i)
        transLine == LineOrEmpty(translatedLines, i)
    IN  IF origLine = transLine
        THEN <<DiffLine(origLine, "unchanged", i), DiffLine(transLine, "unchanged", i)>>
        ELSE IF i > Len(originalLines)
        THEN <<DiffLine(<<>>, "removed", i), DiffLine(transLine, "added", i)>>
        ELSE IF i > Len(translatedLines)
        THEN <<DiffLine(origLine, "removed", i), DiffLine(<<>>, "added", i)>>
        ELSE <<DiffLine(origLine, "removed", i), DiffLine(transLine, "added", i)>>

\* One iteration of the for loop of computeLCS: the pair <<original side,
\* translated side>> of line i (counted from 1, so lineNumber is i).
DiffAt(originalLines, translatedLines, i) ==
    LET origLine == LineOrEmpty(originalLines, i)
        transLine == LineOrEmpty(translatedLines, i)
    IN  IF origLine = transLine
        THEN <<DiffLine(origLine, "unchanged", i), DiffLine(transLine, "unchanged", i)>>
        ELSE IF i > Len(originalLines)
        THEN <<DiffLine(<<>>, "removed", i), DiffLine(transLine, "added", i)>>
        ELSE IF i > Len(translatedLines)
        THEN <<DiffLine(origLine, "removed", i), DiffLine(<<>>, "added", i)>>
        ELSE <<DiffLine(origLine, "modified", i), DiffLine(transLine, "modified", i)>>

\* computeLCS of two texts (the typeof === 'string' side of lines 287-288;
\* a non-string argument is first serialized to such a text)
computeLCS(orig, trans) ==
    LET originalLines == Split(orig, LF)
        translatedLines == Split(trans, LF)
        maxLength == Max(Len(originalLines), Len(translatedLines))
    IN  [original |-> [i \in 1..maxLength |-> DiffAt(originalLines, translatedLines, i)[1]],
         translated |-> [i \in 1..maxLength |-> DiffAt(originalLines, translatedLines, i)[2]]]

----------------------------------------------------------------------------
(* Timestamps (utils/validation).                                          *)

\* The characters of the class in raw.replace(/[...]/g, '-'), as the source
\* file holds them
DashLike == {"U+00E2", "U+20AC", "U+201D", "U+201C"}

ReplaceDashLike(raw) ==
    [i \in 1..Len(raw) |-> IF raw[i] \in DashLike THEN "-" ELSE raw[i]]

\* the result `undefined`, and a string result
NoTimestamp == [defined |-> FALSE, str |-> <<>>]
Timestamp(str) == [defined |-> TRUE, str |-> str]

\* parse: p.match(/^([0-9]{1,3}):([0-5][0-9])$/), then parseInt of each group
parse(p) ==
    LET n == Len(p)
    IN  IF /\ n \in 4..6
           /\ \A i \in 1..(n - 3) : IsDigit(p[i])
           /\ p[n - 2] = ":"
           /\ p[n - 1] \in {"0", "1", "2", "3", "4", "5"}
           /\ IsDigit(p[n])
        THEN [ok |-> TRUE, m |-> StringToNumber(SubSeq(p, 1, n - 3)),
              s |-> StringToNumber(SubSeq(p, n - 1, n))]
        ELSE [ok |-> FALSE, m |-> 0, s |-> 0]

\* String(n).padStart(2, '0')
PadStart2(n) ==
    LET t == NumberToString(n) IN IF Len(t) < 2 THEN <<"0">> \o t ELSE t

fmt(m, sec) == PadStart2(m) \o <<":">> \o PadStart2(sec)

normalizeTimestamp(text) ==
    LET raw == Trim(text)
    IN  IF raw = <<>> THEN NoTimestamp
        ELSE LET s == ReplaceDashLike(raw)
             IN  IF "-" \in Range(s)
                 THEN \* const [a, b] = s.split('-').map(x => x.trim())
                      LET parts == Split(s, "-")
                          pa == parse(Trim(parts[1]))
                          pb == parse(Trim(parts[2]))
                      IN  IF ~pa.ok \/ ~pb.ok THEN NoTimestamp
                          ELSE IF pb.m * 60 + pb.s < pa.m * 60 + pa.s THEN NoTimestamp
                          ELSE Timestamp(fmt(pa.m, pa.s) \o <<"-">> \o fmt(pb.m, pb.s))
                 ELSE LET p1 == parse(s)
                      IN  IF ~p1.ok THEN NoTimestamp ELSE Timestamp(fmt(p1.m, p1.s))

----------------------------------------------------------------------------
(* The editor (App.tsx) and its translation pane                           *)
(* (components/TranslationJsonInput.tsx).                                  *)

\* A text of a text area, by what trim and JSON.parse make of it: the empty
\* text, a text of white space only, a text that does not parse, and a text
\* that parses to `doc`, either as typed or as JSON.stringify(doc, null, 2)
\* writes it.  JSON.parse of what JSON.stringify wrote of a parsed document
\* is that document.
EmptyText == [form |-> "empty", doc |-> JNull]
BlankText == [form |-> "blank", doc |-> JNull]
GarbageText == [form |-> "garbage", doc |-> JNull]
TypedText(doc) == [form |-> "typed", doc |-> doc]
JsonStringify(doc) == [form |-> "pretty", doc |-> doc]
\* !text.trim()
IsBlank(text) == text.form \in {"empty", "blank"}
\* JSON.parse(text) returns (JsonParse) or throws
Parses(text) == text.form \in {"typed", "pretty"}
JsonParse(text) == text.doc

InvalidJsonSyntax ==
    JString(<<"I", "n", "v", "a", "l", "i", "d", " ", "J", "S", "O", "N", " ",
              "s", "y", "n", "t", "a", "x">>)
\* `JSON 语法错误: ${e.message}` of the translation pane
TranslationSyntaxError == JString(<<"J", "S", "O", "N", " ", "U+8BED", "U+6CD5", "U+9519", "U+8BEF">>)

\* { missingPaths: [], extraPaths: [], typeMismatches: [] }
EmptyDiagnostics ==
    [threw |-> FALSE, missingPaths |-> <<>>, extraPaths |-> <<>>, typeMismatches |-> <<>>]

\* The state of the App and of its translation pane after mounting
NewApp ==
    [jsonText |-> EmptyText, data |-> JNull, parseError |-> JNull,
     past |-> <<>>, future |-> <<>>,
     translationJsonText |-> EmptyText, translationMap |-> JObject(<<>>, <<>>),
     translationDiag |-> JNull,
     translationInput |-> [text |-> EmptyText, parseError |-> JNull, diag |-> JNull]]

\* setPast((prev) => (data ? [...prev, data] : prev))
PushPast(app) == IF ~Falsy(app.data) THEN Append(app.past, app.data) ELSE app.past

\* handleTextChange: the raw text was edited to newText
handleTextChange(app, newText) ==
    IF IsBlank(newText)
    THEN [app EXCEPT !.jsonText = newText, !.data = JNull, !.parseError = JNull]
    ELSE IF ~Parses(newText) \/ extractBilingual(JsonParse(newText)).threw
    THEN [app EXCEPT !.jsonText = newText, !.parseError = InvalidJsonSyntax]
    ELSE LET parsedJson == JsonParse(newText)
             eb == extractBilingual(parsedJson)
         IN  [app EXCEPT !.jsonText = newText,
                         !.past = PushPast(app),
                         !.future = <<>>,
                         !.data = eb.original,
                         !.translationMap = eb.map,
                         !.translationDiag =
                             diagnoseMatch(eb.original,
                                 IF Len(eb.map.keys) # 0 THEN parsedJson ELSE eb.original),
                         !.parseError = JNull]

\* handleVisualChange(newData), called by the visual editor
handleVisualChange(app, newData) ==
    [app EXCEPT !.past = PushPast(app),
                !.future = <<>>,
                !.data = newData,
                !.jsonText = JsonStringify(newData)]

\* handleFormat keeping the redo stack
handleFormat_KeepFuture(app) ==
    IF IsBlank(app.jsonText) THEN app
    ELSE IF ~Parses(app.jsonText) \/ extractBilingual(JsonParse(app.jsonText)).threw
    THEN [app EXCEPT !.parseError = InvalidJsonSyntax]
    ELSE LET eb == extractBilingual(JsonParse(app.jsonText))
         IN  [app EXCEPT !.jsonText = JsonStringify(eb.original),
                         !.past = PushPast(app),
                         !.data = eb.original,
                         !.translationMap = eb.map,
                         !.parseError = JNull]

\* handleFormat
handleFormat(app) ==
    IF IsBlank(app.jsonText) THEN app
    ELSE IF ~Parses(app.jsonText) \/ extractBilingual(JsonParse(app.jsonText)).threw
    THEN [app EXCEPT !.parseError = InvalidJsonSyntax]
    ELSE LET eb == extractBilingual(JsonParse(app.jsonText))
         IN  [app EXCEPT !.jsonText = JsonStringify(eb.original),
                         !.past = PushPast(app),
                         !.future = <<>>,
                         !.data = eb.original,
                         !.translationMap = eb.map,
                         !.parseError = JNull]

\* if (!past.length || !data) return, of the undo button and of Ctrl+Z
CanUndo(app) == app.past # <<>> /\ ~Falsy(app.data)
\* if (!future.length || !data) return, of the redo button and of Ctrl+Shift+Z
CanRedo(app) == app.future # <<>> /\ ~Falsy(app.data)

\* The body of the undo button's onClick and of the Ctrl+Z branch
undo(app) ==
    LET prev == app.past[Len(app.past)]
    IN  [app EXCEPT !.past = SubSeq(app.past, 1, Len(app.past) - 1),
                    !.future = Append(app.future, app.data),
                    !.data = prev,
                    !.jsonText = JsonStringify(prev)]

\* The body of the redo button's onClick and of the Ctrl+Shift+Z branch
redo(app) ==
    LET next == app.future[Len(app.future)]
    IN  [app EXCEPT !.future = SubSeq(app.future, 1, Len(app.future) - 1),
                    !.past = Append(app.past, app.data),
                    !.data = next,
                    !.jsonText = JsonStringify(next)]

\* onLoad of the TranslationJsonInput element
onLoad(app, map, rawText, diagnostics) ==
    [app EXCEPT !.translationMap = map,
                !.translationJsonText = rawText,
                !.translationDiag = diagnostics]

\* diagnoseMatch(originalData, tjson) of the translation pane, whose
\* exception its handler catches
PaneDiagnostics(app, tjson) ==
    IF ~Falsy(app.data) THEN diagnoseMatch(app.data, tjson) ELSE EmptyDiagnostics

\* handleChange of TranslationJsonInput: the translation text was edited
handleChange(app, newText) ==
    IF IsBlank(newText)
    THEN onLoad([app EXCEPT !.translationInput =
                                [text |-> newText, parseError |-> JNull, diag |-> JNull]],
                JObject(<<>>, <<>>), EmptyText, EmptyDiagnostics)
    ELSE IF ~Parses(newText) \/ PaneDiagnostics(app, JsonParse(newText)).threw
    THEN [app EXCEPT !.translationInput =
                         [text |-> newText, parseError |-> TranslationSyntaxError,
                          diag |-> JNull]]
    ELSE LET tjson == JsonParse(newText)
             map == buildTranslationMapFromJson(tjson)
             diagnostics == PaneDiagnostics(app, tjson)
         IN  onLoad([app EXCEPT !.translationInput =
                                    [text |-> newText, parseError |-> JNull,
                                     diag |-> diagnostics]],
                    map, newText, diagnostics)

----------------------------------------------------------------------------
(* Translation service (services/geminiService.ts): translateJson.         *)

maxRetries == 3

\* delay(1000 * Math.pow(2, attempt)) taking the exponent one too low
RetryDelay_FromOne(k) == 1000 * 2^(k - 1)

\* 1000 * Math.pow(2, attempt)
RetryDelay(k) == 1000 * 2^k

\* What one attempt gets from the service: an exception of the call (of
\* callCustomApi or of the SDK), or a text.  A text is told by what the
\* extraction makes of it: whether it is empty, whether other text stands
\* before and behind the JSON it holds, and whether that JSON is a container,
\* a scalar or broken.
CallThrows(name) == [threw |-> TRUE, error |-> name, empty |-> FALSE, before |-> FALSE,
                     behind |-> FALSE, body |-> "none", doc |-> JNull]
NoText == [threw |-> FALSE, error |-> "", empty |-> TRUE, before |-> FALSE,
           behind |-> FALSE, body |-> "none", doc |-> JNull]
Text(before, body, doc, behind) ==
    [threw |-> FALSE, error |-> "", empty |-> FALSE, before |-> before,
     behind |-> behind, body |-> body, doc |-> doc]

\* The extraction and JSON.parse(cleanText): from the first '{' or '[' to
\* the last '}' or ']' when the text holds a container, the whole text
\* otherwise.  `ok` is whether JSON.parse returns.
ExtractAndParse(text) ==
    IF text.body = "container" THEN [ok |-> TRUE, value |-> text.doc]
    ELSE IF text.body = "scalar" /\ ~text.before /\ ~text.behind
    THEN [ok |-> TRUE, value |-> text.doc]
    ELSE [ok |-> FALSE, value |-> JUndefined]

\* The Error an attempt ends with, a new object at every attempt
ErrorOf(name, k) == [name |-> name, attempt |-> k]

\* The body of the try block for one answer of the service
TryAttempt(answer) ==
    IF answer.threw THEN [ok |-> FALSE, value |-> JUndefined, error |-> answer.error]
    ELSE IF answer.empty
    THEN [ok |-> FALSE, value |-> JUndefined, error |-> "No response text received"]
    ELSE LET parsedText == ExtractAndParse(answer)
         IN  IF parsedText.ok THEN [ok |-> TRUE, value |-> parsedText.value, error |-> ""]
             ELSE [ok |-> FALSE, value |-> JUndefined, error |-> "SyntaxError"]

Pending == [state |-> "pending", value |-> JUndefined, error |-> <<>>]
Resolved(v) == [state |-> "resolved", value |-> v, error |-> <<>>]
Rejected(e) == [state |-> "rejected", value |-> JUndefined, error |-> e]

----------------------------------------------------------------------------
(* Bounded inputs.                                                         *)

\* Key names free of control characters and brackets.
CodecKeyNames == {<<"a">>, <<"s", "_", "2">>, <<"a", "-", "b">>, <<"a", ".", "b">>}
CodecSegments ==
    {KeySeg(k) : k \in CodecKeyNames} \cup {IdxSeg(n) : n \in (0..MaxIndex) \cup {BigIndex}}
CodecPaths == SeqsUpTo(CodecSegments, MaxPathLen)

\* Sequences of n distinct elements of S.
DistinctSeqs(S, n) == {f \in [1..n -> S] : \A i, j \in 1..n : i # j => f[i] # f[j]}

\* Sequences of documents of m nodes in total, where table[k] is the set of
\* the documents of exactly k nodes.
RECURSIVE ChildSeqs(_, _)
ChildSeqs(table, m) ==
    IF m = 0 THEN {<<>>}
    ELSE UNION {{<<d>> \o r : d \in table[k], r \in ChildSeqs(table, m - k)} : k \in 1..m}

\* The sets of the documents of exactly 1, 2, .. n nodes over the given
\* leaves and key names.
RECURSIVE DocTable(_, _, _)
DocTable(leaves, keys, n) ==
    IF n = 0 THEN <<>>
    ELSE LET table == DocTable(leaves, keys, n - 1)
             children == ChildSeqs(table, n - 1)
         IN  Append(table,
                 (IF n = 1 THEN leaves ELSE {})
                 \cup {JArray(cs) : cs \in children}
                 \cup UNION {{JObject(ks, cs) : ks \in DistinctSeqs(keys, Len(cs))} :
                                cs \in children})

JsonDocs(leaves, keys, n) ==
    LET table == DocTable(leaves, keys, n) IN UNION {table[k] : k \in 1..n}

\* "x", and " x| y|z " whose translated half is "y|z"
PlainText == <<"x">>
BilingualText == <<" ", "x", "|", " ", "y", "|", "z", " ">>

WalkLeaves == {JString(PlainText), JString(BilingualText), JNumber(<<"1">>)}
WalkKeyNames == {<<"a">>, <<"a", ".", "a">>}
WalkDocs == JsonDocs(WalkLeaves, WalkKeyNames, MaxNodes)

PairLeaves == {JString(PlainText)}
PairKeyNames == {<<"a">>, <<"a", ".", "a">>}
PairDocs == JsonDocs(PairLeaves, PairKeyNames, MaxPairNodes)

\* Documents and path keys handed to getByPath: an own key named like a
\* method of Object.prototype, and keys naming inherited members.
ResolveLeaves == {JString(PlainText), JNull}
ResolveKeyNames == {<<"a">>, <<"t", "o", "S", "t", "r", "i", "n", "g">>}
ResolveDocs == JsonDocs(ResolveLeaves, ResolveKeyNames, MaxPairNodes)
ResolveSegments ==
    {KeySeg(k) : k \in ResolveKeyNames \cup {ProtoName}} \cup {IdxSeg(n) : n \in 0..MaxIndex}
ResolveKeys == {buildPathKey(p) : p \in SeqsUpTo(ResolveSegments, MaxResolveLen)}

\* Command lines and files of the standalone validator: o and t hold
\* documents, g does not parse, n does not exist.
CliTokens ==
    {<<"-", "-", "o", "r", "i", "g", "i", "n", "a", "l">>, <<"-", "-", "t", "r", "a", "n", "s", "l", "a", "t", "e", "d">>, <<"-", "-", "o", "r", "i", "g", "i", "n", "a", "l", "=", "o">>, <<"-", "-", "s", "e", "p", "s", "=", "-">>,
     <<"o">>, <<"t">>, <<"g">>, <<"n">>}
CliArgvs == SeqsUpTo(CliTokens, MaxArgs)
CliDocs ==
    {JObject(<<<<"a">>>>, <<JString(PlainText)>>),
     JObject(<<<<"a">>, <<"b">>>>, <<JString(PlainText), JString(PlainText)>>),
     JObject(<<<<"a">>>>, <<JString(<<"x", "-">>)>>)}
CliFiles ==
    {[name \in {<<"o">>, <<"t">>, <<"g">>} |->
         IF name = <<"o">> THEN JsonFile(o)
         ELSE IF name = <<"t">> THEN JsonFile(t) ELSE GarbageFile] :
     o \in CliDocs, t \in CliDocs}

\* Documents handed to the strict comparators: "x/" is "x" once the web
\* separators are removed, and toString names an inherited member of every
\* flattened object.
StrictLeaves == {JString(PlainText), JString(<<"x", "/">>), JNumber(<<"1">>), JNull}
StrictKeyNames == {<<"a">>, <<"t", "o", "S", "t", "r", "i", "n", "g">>}
StrictDocs == JsonDocs(StrictLeaves, StrictKeyNames, MaxStrictNodes)

\* Documents and values handed to one validator.
ValidatorDocs ==
    {JObject(<<<<"a">>>>, <<JString(PlainText)>>),
     JObject(<<<<"a">>>>, <<JString(<<"x", "/">>)>>),
     JObject(<<<<"a">>>>, <<JNumber(<<"1">>)>>),
     JNumber(<<"0">>)}
ValidatorValues == {JString(<<"x", "/">>), JString(<<"U+4E2D">>), JNumber(<<"1">>)}

\* Documents of up to one node more than the scaled cap.
CapLeaves == {JString(PlainText), JNull}
CapKeyNames == {<<"a">>, <<"b">>}
CapDocs == JsonDocs(CapLeaves, CapKeyNames, CapNodes + 1)
\* The other argument of diagnoseMatch: a scalar, null and an array.
CapPeers == {JString(PlainText), JNull, JArray(<<JString(PlainText)>>)}

\* Texts handed to normalizeTimestamp: up to MaxStampParts parts, each a
\* point or a malformed point, joined by a hyphen, a spaced hyphen or a euro
\* sign; a single part with white space around it; the empty text and a
\* blank one.
StampParts ==
    {<<"1", ":", "0", "2">>, <<"2", ":", "0", "0">>, <<"1", "0", "0", ":", "0", "0">>,
     <<"1", ":", "6", "0">>, <<"1", "0", "0", "0", ":", "0", "0">>}
StampSeps == {<<"-">>, <<" ", "-", " ">>, <<"U+20AC">>}
RECURSIVE StampJoined(_)
StampJoined(n) ==
    IF n = 1 THEN StampParts
    ELSE {t \o sep \o q : t \in StampJoined(n - 1), sep \in StampSeps, q \in StampParts}
StampTexts ==
    UNION {StampJoined(n) : n \in 1..MaxStampParts}
    \cup {<<" ">> \o t \o <<" ">> : t \in StampParts}
    \cup {<<>>, <<" ">>}

\* Documents of the editor: {"a":"x"}, {"a":" x| y|z "} (whose source half
\* is the first), {"b":"x"} and the number 0; the texts typed into the source
\* pane and into the translation pane; the documents the visual editor hands
\* back (objects: it spreads the current one).
AppObjects ==
    {JObject(<<<<"a">>>>, <<JString(PlainText)>>),
     JObject(<<<<"a">>>>, <<JString(BilingualText)>>),
     JObject(<<<<"b">>>>, <<JString(PlainText)>>)}
AppDocs == AppObjects \cup {JNumber(<<"0">>)}
AppVisualDocs ==
    {JObject(<<<<"a">>>>, <<JString(PlainText)>>),
     JObject(<<<<"b">>>>, <<JString(PlainText)>>)}
AppTexts == {EmptyText, BlankText, GarbageText} \cup {TypedText(d) : d \in AppDocs}
AppTranslations ==
    {EmptyText, GarbageText}
    \cup {TypedText(d) : d \in AppVisualDocs}

\* Answers of the translation service: the exceptions of the SDK and of
\* callCustomApi, and texts holding a translated object, the scalar 0 or
\* broken JSON, bare or with other text around.
RetryDocs == [container |-> JObject(<<<<"a">>>>, <<JString(BilingualText)>>),
              scalar |-> JNumber(<<"0">>), broken |-> JNull]
RetryTexts ==
    {NoText} \cup {Text(before, body, RetryDocs[body], behind) :
                      before \in BOOLEAN, body \in {"container", "scalar", "broken"},
                      behind \in BOOLEAN}
GeminiAnswers == {CallThrows("ApiError")} \cup RetryTexts
CustomAnswers ==
    {CallThrows(e) : e \in {"Invalid Custom Headers format", "Network request failed",
                            "Custom API Error", "Could not find text at path"}}
    \cup RetryTexts
Answers(settings) == IF settings.provider = "CUSTOM" THEN CustomAnswers ELSE GeminiAnswers

----------------------------------------------------------------------------
(* State machines.  Each specification draws the arguments of the calls it *)
(* is about in its initial state and leaves the other variables idle.      *)

IdleCodec == segments = <<>> /\ pathKey = <<>> /\ parsed = <<>>
IdleDocs == originalJson = JNull /\ translationJson = JNull /\ walked = <<>> /\ diag = <<>>
IdleNorm == value = <<>> /\ cleaned = <<>>
IdleDiff == original = <<>> /\ translated = <<>> /\ lcs = <<>>
NoBuilds == [sep |-> 0, zh |-> 0]
NoMatchers == sepRegex = NullRegex /\ chineseRegex = NullRegex /\ builds = NoBuilds
IdleCli == argv = <<>> /\ files = <<>> /\ exitCode = <<>> /\ results = <<>>
IdleStamp == ts = <<>> /\ stamp = <<>>
IdleApp ==
    /\ jsonText = <<>> /\ data = JNull /\ parseError = JNull /\ past = <<>> /\ future = <<>>
    /\ translationJsonText = <<>> /\ translationInput = <<>>
    /\ translationMap = <<>> /\ translationDiag = JNull
IdleRetry ==
    /\ apiSettings = <<>> /\ attempt = 0 /\ response = <<>>
    /\ lastError = <<>> /\ delays = <<>> /\ reply = <<>>

codecVars == <<segments, pathKey, parsed>>
docVars == <<originalJson, translationJson, walked, diag>>
normVars == <<value, cleaned, sepRegex, chineseRegex, builds>>
diffVars == <<original, translated, lcs>>
cliVars == <<argv, files, exitCode, results>>
stampVars == <<ts, stamp>>
appVars == <<jsonText, data, parseError, past, future, translationJsonText,
             translationInput, translationMap, translationDiag>>
retryVars == <<apiSettings, attempt, response, lastError, delays, reply>>

\* ---- path codec ----
InitCodec ==
    /\ pc = "ready"
    /\ segments \in CodecPaths
    /\ pathKey = <<>> /\ parsed = <<>>
    /\ IdleDocs /\ IdleNorm /\ NoMatchers /\ IdleDiff
    /\ IdleCli
    /\ IdleStamp
    /\ IdleApp
    /\ IdleRetry

BuildPathKey ==
    /\ pc = "ready"
    /\ pathKey' = buildPathKey(segments)
    /\ pc' = "encoded"
    /\ UNCHANGED <<segments, parsed, docVars, normVars, diffVars, cliVars, stampVars, appVars, retryVars>>

ParsePathKey ==
    /\ pc = "encoded"
    /\ parsed' = parsePathKey(pathKey)
    /\ pc' = "decoded"
    /\ UNCHANGED <<segments, pathKey, docVars, normVars, diffVars, cliVars, stampVars, appVars, retryVars>>

NextCodec == BuildPathKey \/ ParsePathKey

SpecCodec == InitCodec /\ [][NextCodec]_vars

\* ---- one document: walker, translation map, bilingual extraction ----
InitWalk ==
    /\ pc = "ready"
    /\ originalJson \in WalkDocs
    /\ translationJson = JNull /\ walked = <<>> /\ diag = <<>>
    /\ IdleCodec /\ IdleNorm /\ NoMatchers /\ IdleDiff
    /\ IdleCli
    /\ IdleStamp
    /\ IdleApp
    /\ IdleRetry

CollectStringPaths ==
    /\ pc = "ready"
    /\ walked' = collectStringPaths(originalJson)
    /\ pc' = "collected"
    /\ UNCHANGED <<originalJson, translationJson, diag, codecVars, normVars, diffVars, cliVars, stampVars, appVars, retryVars>>

BuildTranslationMapFromJson ==
    /\ pc = "ready"
    /\ walked' = buildTranslationMapFromJson(originalJson)
    /\ pc' = "mapped"
    /\ UNCHANGED <<originalJson, translationJson, diag, codecVars, normVars, diffVars, cliVars, stampVars, appVars, retryVars>>

ExtractBilingual ==
    /\ pc = "ready"
    /\ walked' = extractBilingual(originalJson)
    /\ pc' = "extracted"
    /\ UNCHANGED <<originalJson, translationJson, diag, codecVars, normVars, diffVars, cliVars, stampVars, appVars, retryVars>>

DiagnoseSelf ==
    /\ pc = "ready"
    /\ diag' = diagnoseMatch(originalJson, originalJson)
    /\ pc' = "self_diagnosed"
    /\ UNCHANGED <<originalJson, translationJson, walked, codecVars, normVars, diffVars, cliVars, stampVars, appVars, retryVars>>

NextWalk == CollectStringPaths \/ BuildTranslationMapFromJson \/ ExtractBilingual
            \/ DiagnoseSelf

SpecWalk == InitWalk /\ [][NextWalk]_vars

\* ---- two documents: diagnostics ----
InitDiag ==
    /\ pc = "ready"
    /\ originalJson \in PairDocs
    /\ translationJson \in PairDocs
    /\ walked = <<>> /\ diag = <<>>
    /\ IdleCodec /\ IdleNorm /\ NoMatchers /\ IdleDiff
    /\ IdleCli
    /\ IdleStamp
    /\ IdleApp
    /\ IdleRetry

DiagnoseMatch ==
    /\ pc = "ready"
    /\ diag' = diagnoseMatch(originalJson, translationJson)
    /\ pc' = "diagnosed"
    /\ UNCHANGED <<originalJson, translationJson, walked, codecVars, normVars, diffVars, cliVars, stampVars, appVars, retryVars>>

\* diagnoseMatch handed the translation map of the translation document in
\* place of the document
DiagnoseMatchWithMap ==
    /\ pc = "ready"
    /\ walked' = buildTranslationMapFromJson(translationJson)
    /\ diag' = diagnoseMatch(originalJson, walked')
    /\ pc' = "diagnosed_with_map"
    /\ UNCHANGED <<originalJson, translationJson, codecVars, normVars, diffVars, cliVars, stampVars, appVars, retryVars>>

NextDiag == DiagnoseMatch \/ DiagnoseMatchWithMap

SpecDiag == InitDiag /\ [][NextDiag]_vars

\* ---- value resolver ----
InitResolve ==
    /\ pc = "ready"
    /\ originalJson \in ResolveDocs
    /\ pathKey \in ResolveKeys
    /\ segments = <<>> /\ parsed = <<>>
    /\ translationJson = JNull /\ walked = <<>> /\ diag = <<>>
    /\ IdleNorm /\ NoMatchers /\ IdleDiff
    /\ IdleCli
    /\ IdleStamp
    /\ IdleApp
    /\ IdleRetry

GetByPath ==
    /\ pc = "ready"
    /\ walked' = getByPath(originalJson, pathKey)
    /\ pc' = "resolved"
    /\ UNCHANGED <<originalJson, translationJson, diag, codecVars, normVars, diffVars, cliVars, stampVars, appVars, retryVars>>

NextResolve == GetByPath

SpecResolve == InitResolve /\ [][NextResolve]_vars

\* ---- traversals with the node cap scaled to CapNodes ----
InitCap ==
    /\ pc = "ready"
    /\ originalJson \in CapDocs
    /\ translationJson \in CapPeers
    /\ walked = <<>> /\ diag = <<>>
    /\ IdleCodec /\ IdleNorm /\ NoMatchers /\ IdleDiff
    /\ IdleCli
    /\ IdleStamp
    /\ IdleApp
    /\ IdleRetry

CollectCapped ==
    /\ pc = "ready"
    /\ walked' = collectStringPathsWithCap(originalJson, CapNodes)
    /\ pc' = "cap_collected"
    /\ UNCHANGED <<originalJson, translationJson, diag, codecVars, normVars, diffVars, cliVars, stampVars, appVars, retryVars>>

\* buildTranslationMapFromJson has no throw statement: the caller gets a map
MapCapped ==
    /\ pc = "ready"
    /\ walked' = [threw |-> FALSE,
                  result |-> buildTranslationMapWithCap(originalJson, CapNodes)]
    /\ pc' = "cap_mapped"
    /\ UNCHANGED <<originalJson, translationJson, diag, codecVars, normVars, diffVars, cliVars, stampVars, appVars, retryVars>>

\* findTitleDuplicates has no throw statement: the caller gets a list
TitlesCapped ==
    /\ pc = "ready"
    /\ walked' = [threw |-> FALSE,
                  result |-> findTitleDuplicatesWithCap(originalJson, CapNodes)]
    /\ pc' = "cap_titled"
    /\ UNCHANGED <<originalJson, translationJson, diag, codecVars, normVars, diffVars, cliVars, stampVars, appVars, retryVars>>

DiagnoseCapped ==
    /\ pc = "ready"
    /\ diag' = diagnoseMatchWithCap(originalJson, translationJson, CapNodes)
    /\ pc' = "cap_diagnosed"
    /\ UNCHANGED <<originalJson, translationJson, walked, codecVars, normVars, diffVars, cliVars, stampVars, appVars, retryVars>>

\* diagnoseMatch with the large document as the translation
DiagnoseCappedSwapped ==
    /\ pc = "ready"
    /\ diag' = diagnoseMatchWithCap(translationJson, originalJson, CapNodes)
    /\ pc' = "cap_diagnosed_swapped"
    /\ UNCHANGED <<originalJson, translationJson, walked, codecVars, normVars, diffVars, cliVars, stampVars, appVars, retryVars>>

NextCap == CollectCapped \/ MapCapped \/ TitlesCapped \/ DiagnoseCapped
           \/ DiagnoseCappedSwapped

SpecCap == InitCap /\ [][NextCap]_vars

\* ---- standalone validator ----
InitCli ==
    /\ pc = "ready"
    /\ argv \in CliArgvs
    /\ files \in CliFiles
    /\ exitCode = <<>> /\ results = <<>>
    /\ IdleCodec /\ IdleDocs /\ IdleNorm /\ NoMatchers /\ IdleDiff
    /\ IdleStamp
    /\ IdleApp
    /\ IdleRetry

\* main(), up to the end of the process
Main ==
    /\ pc = "ready"
    /\ LET args == parseArgs(argv)
       IN  IF ~Truthy(args.original) \/ ~Truthy(args.translated)
           THEN exitCode' = <<2>> /\ results' = <<>>
           ELSE IF args.original.kind # "string" \/ args.translated.kind # "string"
           THEN \* path.resolve(cwd, true) throws a TypeError outside the try
                \* block: the promise of main() is rejected and never handled,
                \* so the runtime ends the process with status 1, or (before
                \* unhandled rejections became fatal) warns and ends it with 0
                exitCode' \in {<<0>>, <<1>>} /\ results' = <<>>
           ELSE IF \/ ~CanReadJson(files, args.original.str)
                   \/ ~CanReadJson(files, args.translated.str)
           THEN exitCode' = <<2>> /\ results' = <<>>
           ELSE LET r == compare(flatten(files[args.original.str].doc, <<>>),
                                 flatten(files[args.translated.str].doc, <<>>),
                                 buildSepRegexOfList(SepList(args)))
                IN  /\ results' = r
                    /\ exitCode' = IF r.errors # <<>> THEN <<1>> ELSE <<0>>
    /\ pc' = "exited"
    /\ UNCHANGED <<argv, files, codecVars, docVars, normVars, diffVars, stampVars, appVars, retryVars>>

NextCli == Main

SpecCli == InitCli /\ [][NextCli]_vars

\* ---- strict comparators of the web validator and the standalone one ----
InitStrict ==
    /\ pc = "ready"
    /\ originalJson \in StrictDocs
    /\ translationJson \in StrictDocs
    /\ walked = <<>> /\ diag = <<>>
    /\ IdleCodec /\ IdleNorm /\ NoMatchers /\ IdleDiff
    /\ IdleCli
    /\ IdleStamp
    /\ IdleApp
    /\ IdleRetry

\* compareJSON(original, translated) on a new JSONValidator: the two matchers
\* are built when the first string of the translation is cleaned
CompareJSON ==
    /\ pc = "ready"
    /\ LET used == HasString(translationJson)
       IN  /\ chineseRegex' = IF used THEN getChineseRegex(chineseRegex) ELSE chineseRegex
           /\ sepRegex' = IF used /\ ~sepRegex.built THEN buildSepRegex(separators)
                          ELSE sepRegex
           /\ builds' = [sep |-> builds.sep + (IF used /\ ~sepRegex.built THEN 1 ELSE 0),
                         zh |-> builds.zh + (IF used /\ ~chineseRegex.built THEN 1 ELSE 0)]
           /\ results' = compareJSON(originalJson, translationJson,
                                     getChineseRegex(chineseRegex),
                                     IF ~sepRegex.built THEN buildSepRegex(separators)
                                     ELSE sepRegex)
    /\ pc' = "compared_web"
    /\ UNCHANGED <<value, cleaned, argv, files, exitCode, codecVars, docVars, diffVars, stampVars, appVars, retryVars>>

\* compare(flatten(original), flatten(translated), sepRegex) of the
\* standalone validator run without --seps
Compare ==
    /\ pc = "ready"
    /\ results' = compare(flatten(originalJson, <<>>), flatten(translationJson, <<>>),
                          buildSepRegexOfList(SepList(NoArgs)))
    /\ pc' = "compared_cli"
    /\ UNCHANGED <<argv, files, exitCode, codecVars, docVars, normVars, diffVars, stampVars, appVars, retryVars>>

NextStrict == CompareJSON \/ Compare

SpecStrict == InitStrict /\ [][NextStrict]_vars

\* ---- one JSONValidator over a sequence of calls ----
\* The fields of the validator, held in the variables of the model.
This ==
    [originalJson |-> originalJson, translatedJson |-> translationJson,
     validationResults |-> results, sepRegex |-> sepRegex, chineseRegex |-> chineseRegex]

\* The fields after a call, with each construction of a matcher counted.
Becomes(this) ==
    /\ originalJson' = this.originalJson
    /\ translationJson' = this.translatedJson
    /\ results' = this.validationResults
    /\ sepRegex' = this.sepRegex
    /\ chineseRegex' = this.chineseRegex
    /\ builds' = [sep |-> builds.sep + (IF this.sepRegex.built /\ this.sepRegex # sepRegex
                                         THEN 1 ELSE 0),
                  zh |-> builds.zh + (IF this.chineseRegex.built
                                         /\ this.chineseRegex # chineseRegex
                                      THEN 1 ELSE 0)]

ValidatorPcs == {"constructed", "input", "cleaned_value", "compared", "validated", "cleared"}
WithinBuilds == builds.sep < MaxBuilds /\ builds.zh < MaxBuilds

InitValidator ==
    /\ pc = "constructed"
    /\ originalJson = NewValidator.originalJson
    /\ translationJson = NewValidator.translatedJson
    /\ results = NewValidator.validationResults
    /\ sepRegex = NewValidator.sepRegex
    /\ chineseRegex = NewValidator.chineseRegex
    /\ builds = NoBuilds
    /\ walked = <<>> /\ diag = <<>> /\ value = <<>> /\ cleaned = <<>>
    /\ argv = <<>> /\ files = <<>> /\ exitCode = <<>>
    /\ IdleCodec /\ IdleDiff
    /\ IdleStamp
    /\ IdleApp
    /\ IdleRetry

HandleTextInput ==
    /\ pc \in ValidatorPcs /\ WithinBuilds
    /\ \E json \in ValidatorDocs, type \in {"original", "translated"} :
          Becomes(handleTextInput(This, json, type))
    /\ pc' = "input"
    /\ UNCHANGED <<walked, diag, value, cleaned, argv, files, exitCode, codecVars, diffVars, stampVars, appVars, retryVars>>

\* cleanTranslatedValue(v): `cleaned` lists the values returned so far
CallCleanTranslatedValue ==
    /\ pc \in ValidatorPcs /\ WithinBuilds
    /\ Len(cleaned) < MaxCalls
    /\ \E v \in ValidatorValues :
          LET c == CleanTranslatedValueCall(This, v)
          IN  /\ Becomes(c.this)
              /\ value' = v
              /\ cleaned' = Append(cleaned, c.result)
    /\ pc' = "cleaned_value"
    /\ UNCHANGED <<walked, diag, argv, files, exitCode, codecVars, diffVars, stampVars, appVars, retryVars>>

CallCompareJSON ==
    /\ pc \in ValidatorPcs /\ WithinBuilds
    /\ \E orig \in ValidatorDocs, trans \in ValidatorDocs :
          Becomes(CompareJSONCall(This, orig, trans).this)
    /\ pc' = "compared"
    /\ UNCHANGED <<walked, diag, value, cleaned, argv, files, exitCode, codecVars, diffVars, stampVars, appVars, retryVars>>

Validate ==
    /\ pc \in ValidatorPcs /\ WithinBuilds
    /\ Becomes(validate(This))
    /\ pc' = "validated"
    /\ UNCHANGED <<walked, diag, value, cleaned, argv, files, exitCode, codecVars, diffVars, stampVars, appVars, retryVars>>

ClearAll ==
    /\ pc \in ValidatorPcs /\ WithinBuilds
    /\ Becomes(clearAll(This))
    /\ pc' = "cleared"
    /\ UNCHANGED <<walked, diag, value, cleaned, argv, files, exitCode, codecVars, diffVars, stampVars, appVars, retryVars>>

NextValidator == HandleTextInput \/ CallCleanTranslatedValue \/ CallCompareJSON
                 \/ Validate \/ ClearAll

SpecValidator == InitValidator /\ [][NextValidator]_vars

\* ---- string normalizer ----
NormAlphabet == {"a", " ", "U+3000", "U+4E2D", "|", "U+FF5C", "U+0301"}
NormStrings == SeqsUpTo(NormAlphabet, MaxStrLen)

InitNorm ==
    /\ pc = "ready"
    /\ value \in NormStrings
    /\ cleaned = <<>>
    /\ NoMatchers
    /\ IdleCodec /\ IdleDocs /\ IdleDiff
    /\ IdleCli
    /\ IdleStamp
    /\ IdleApp
    /\ IdleRetry

\* cleanTranslatedValue(value): the two matchers are built on first use
CleanTranslatedValue ==
    /\ pc = "ready"
    /\ chineseRegex' = getChineseRegex(chineseRegex)
    /\ sepRegex' = IF ~sepRegex.built THEN buildSepRegex(separators) ELSE sepRegex
    /\ builds' = [sep |-> builds.sep + (IF ~sepRegex.built THEN 1 ELSE 0),
                  zh |-> builds.zh + (IF ~chineseRegex.built THEN 1 ELSE 0)]
    /\ cleaned' = <<cleanTranslatedValue(value, chineseRegex', sepRegex')>>
    /\ pc' = "cleaned"
    /\ UNCHANGED <<value, codecVars, docVars, diffVars, cliVars, stampVars, appVars, retryVars>>

\* cleanTranslatedValue applied to its own result
CleanAgain ==
    /\ pc = "cleaned"
    /\ chineseRegex' = getChineseRegex(chineseRegex)
    /\ sepRegex' = IF ~sepRegex.built THEN buildSepRegex(separators) ELSE sepRegex
    /\ builds' = [sep |-> builds.sep + (IF ~sepRegex.built THEN 1 ELSE 0),
                  zh |-> builds.zh + (IF ~chineseRegex.built THEN 1 ELSE 0)]
    /\ cleaned' = Append(cleaned, cleanTranslatedValue(cleaned[1], chineseRegex', sepRegex'))
    /\ pc' = "recleaned"
    /\ UNCHANGED <<value, codecVars, docVars, diffVars, cliVars, stampVars, appVars, retryVars>>

NextNorm == CleanTranslatedValue \/ CleanAgain

SpecNorm == InitNorm /\ [][NextNorm]_vars

\* ---- line differencer ----
DiffTexts == SeqsUpTo({"a", "b", LF}, MaxTextLen)

InitDiff ==
    /\ pc = "ready"
    /\ original \in DiffTexts
    /\ translated \in DiffTexts
    /\ lcs = <<>>
    /\ IdleCodec /\ IdleDocs /\ IdleNorm /\ NoMatchers
    /\ IdleCli
    /\ IdleStamp
    /\ IdleApp
    /\ IdleRetry

ComputeLCS ==
    /\ pc = "ready"
    /\ lcs' = computeLCS(original, translated)
    /\ pc' = "diffed"
    /\ UNCHANGED <<original, translated, codecVars, docVars, normVars, cliVars, stampVars, appVars, retryVars>>

NextDiff == ComputeLCS

SpecDiff == InitDiff /\ [][NextDiff]_vars

\* ---- timestamps ----
InitStamp ==
    /\ pc = "ready"
    /\ ts \in StampTexts
    /\ stamp = <<>>
    /\ IdleCodec /\ IdleDocs /\ IdleNorm /\ NoMatchers /\ IdleDiff /\ IdleCli
    /\ IdleApp
    /\ IdleRetry

NormalizeTimestamp ==
    /\ pc = "ready"
    /\ stamp' = normalizeTimestamp(ts)
    /\ pc' = "normalized"
    /\ UNCHANGED <<ts, codecVars, docVars, normVars, diffVars, cliVars, appVars, retryVars>>

NextStamp == NormalizeTimestamp

SpecStamp == InitStamp /\ [][NextStamp]_vars

\* ---- the editor over a sequence of events ----
\* The state of the App and of its translation pane, held in the variables
\* of the model.
AppState ==
    [jsonText |-> jsonText, data |-> data, parseError |-> parseError,
     past |-> past, future |-> future,
     translationJsonText |-> translationJsonText, translationMap |-> translationMap,
     translationDiag |-> translationDiag, translationInput |-> translationInput]

AppBecomes(app) ==
    /\ jsonText' = app.jsonText
    /\ data' = app.data
    /\ parseError' = app.parseError
    /\ past' = app.past
    /\ future' = app.future
    /\ translationJsonText' = app.translationJsonText
    /\ translationMap' = app.translationMap
    /\ translationDiag' = app.translationDiag
    /\ translationInput' = app.translationInput

restOfApp == <<codecVars, docVars, normVars, diffVars, cliVars, stampVars, retryVars>>

InitApp ==
    /\ pc = "mounted"
    /\ jsonText = NewApp.jsonText
    /\ data = NewApp.data
    /\ parseError = NewApp.parseError
    /\ past = NewApp.past
    /\ future = NewApp.future
    /\ translationJsonText = NewApp.translationJsonText
    /\ translationMap = NewApp.translationMap
    /\ translationDiag = NewApp.translationDiag
    /\ translationInput = NewApp.translationInput
    /\ IdleCodec /\ IdleDocs /\ IdleNorm /\ NoMatchers /\ IdleDiff /\ IdleCli
    /\ IdleStamp /\ IdleRetry

\* The raw text is edited: to nothing, to a text that does not parse, or to
\* a text that parses.
HandleTextChange ==
    /\ Len(past) < MaxHistory
    /\ \E newText \in AppTexts :
          /\ AppBecomes(handleTextChange(AppState, newText))
          /\ pc' = IF IsBlank(newText) THEN "text_cleared"
                   ELSE IF ~Parses(newText) THEN "text_rejected"
                   ELSE "text_parsed"
    /\ UNCHANGED restOfApp

\* The visual editor, shown while data is set, reports an edit.
HandleVisualChange ==
    /\ ~Falsy(data)
    /\ Len(past) < MaxHistory
    /\ \E newData \in AppVisualDocs : AppBecomes(handleVisualChange(AppState, newData))
    /\ pc' = "visual_changed"
    /\ UNCHANGED restOfApp

HandleFormat ==
    /\ ~IsBlank(jsonText)
    /\ Len(past) < MaxHistory
    /\ AppBecomes(handleFormat(AppState))
    /\ pc' = IF Parses(jsonText) THEN "formatted" ELSE "format_rejected"
    /\ UNCHANGED restOfApp

Undo ==
    /\ CanUndo(AppState)
    /\ AppBecomes(undo(AppState))
    /\ pc' = "undone"
    /\ UNCHANGED restOfApp

Redo ==
    /\ CanRedo(AppState)
    /\ AppBecomes(redo(AppState))
    /\ pc' = "redone"
    /\ UNCHANGED restOfApp

\* The text of the translation pane is edited.
HandleChange ==
    /\ \E newText \in AppTranslations :
          /\ AppBecomes(handleChange(AppState, newText))
          /\ pc' = IF IsBlank(newText) THEN "translation_cleared"
                   ELSE IF ~Parses(newText) THEN "translation_rejected"
                   ELSE "translation_loaded"
    /\ UNCHANGED restOfApp

NextApp ==
    HandleTextChange \/ HandleVisualChange \/ HandleFormat \/ Undo \/ Redo \/ HandleChange

SpecApp == InitApp /\ [][NextApp]_vars

\* ---- translateJson: one call, from its first attempt to its settling ----
restOfRetry == <<codecVars, docVars, normVars, diffVars, cliVars, stampVars, appVars>>

InitRetry ==
    /\ pc = "awaiting"
    /\ apiSettings \in {[provider |-> "GEMINI"], [provider |-> "CUSTOM"]}
    /\ attempt = 1
    /\ response = <<>>
    /\ lastError = <<>>
    /\ delays = <<>>
    /\ reply = Pending
    /\ IdleCodec /\ IdleDocs /\ IdleNorm /\ NoMatchers /\ IdleDiff /\ IdleCli
    /\ IdleStamp /\ IdleApp

\* The service answers the attempt under way and the try block ends with a
\* return.
AttemptSucceeds ==
    /\ pc = "awaiting"
    /\ attempt <= maxRetries
    /\ \E answer \in Answers(apiSettings) :
          /\ TryAttempt(answer).ok
          /\ response' = answer
          /\ reply' = Resolved(TryAttempt(answer).value)
    /\ pc' = "returned"
    /\ UNCHANGED <<apiSettings, attempt, lastError, delays, restOfRetry>>

\* The service answers the attempt under way and the catch block runs: it
\* leaves the loop after the last attempt and starts a delay otherwise.
AttemptFails ==
    /\ pc = "awaiting"
    /\ attempt <= maxRetries
    /\ \E answer \in Answers(apiSettings) :
          /\ ~TryAttempt(answer).ok
          /\ response' = answer
          /\ lastError' = ErrorOf(TryAttempt(answer).error, attempt)
    /\ IF attempt = maxRetries
       THEN /\ reply' = Rejected(lastError')
            /\ pc' = "thrown"
            /\ UNCHANGED delays
       ELSE /\ delays' = Append(delays, RetryDelay(attempt))
            /\ pc' = "delaying"
            /\ UNCHANGED reply
    /\ UNCHANGED <<apiSettings, attempt, restOfRetry>>

\* The delay ends and the loop starts the next attempt.
DelayElapses ==
    /\ pc = "delaying"
    /\ attempt' = attempt + 1
    /\ pc' = "awaiting"
    /\ UNCHANGED <<apiSettings, response, lastError, delays, reply, restOfRetry>>

NextRetry == AttemptSucceeds \/ AttemptFails \/ DelayElapses

SpecRetry == InitRetry /\ [][NextRetry]_vars

----------------------------------------------------------------------------
(* Claims about the path codec, the walker and the diagnostics.            *)

ControlChars == {"U+0000", "U+0009", "U+000A", "U+000D", "U+007F"}
ValidKeyName(k) == \A i \in 1..Len(k) : k[i] \notin ControlChars \cup {"[", "]"}
ValidPath(p) ==
    \A i \in 1..Len(p) : IF p[i].isNum THEN p[i].num >= 0 ELSE ValidKeyName(p[i].name)

\* C1: for every path of key names free of control characters and brackets
\* and of non-negative indices, parsePathKey(buildPathKey(path)) is that path.
C1_RoundTrip ==
    (pc = "decoded" /\ ValidPath(segments)) => parsed = segments

\* C2: every path key returned by collectStringPaths(D) resolves through
\* getByPath(D, p) to the string leaf that was visited when p was emitted.
C2_Completeness ==
    (pc = "collected" /\ ~walked.threw) =>
        \A i \in 1..Len(walked.result) :
            getByPath(originalJson, walked.result[i]) = walked.leaves[i]

\* C3: diagnoseMatch(A, A) returns empty missingPaths, extraPaths and
\* typeMismatches for any document A.
C3_SelfComparison ==
    pc = "self_diagnosed" =>
        /\ ~diag.threw
        /\ diag.missingPaths = <<>>
        /\ diag.extraPaths = <<>>
        /\ diag.typeMismatches = <<>>

C3_Witness ==
    /\ pc = "self_diagnosed"
    /\ Len(collectStringPaths(originalJson).result) >= 2
    /\ \E i \in 1..Len(originalJson.items) : originalJson.items[i].kind = "number"

SourcePaths == collectStringPaths(originalJson).result
TranslationPaths == collectStringPaths(translationJson).result

\* C4: missingPaths holds a path key p exactly when p is a string-leaf path
\* of the source and not one of the translation, once per occurrence of p
\* among the source's string-leaf paths, and holds nothing else.
C4_MissingDetection ==
    (pc = "diagnosed" /\ ~diag.threw) =>
        \A p \in Range(SourcePaths) \cup Range(TranslationPaths)
                 \cup Range(diag.missingPaths) :
            Count(diag.missingPaths, p) =
                IF p \in Range(SourcePaths) /\ p \notin Range(TranslationPaths)
                THEN Count(SourcePaths, p) ELSE 0

C4_Witness ==
    /\ pc = "diagnosed"
    /\ diag.missingPaths # <<>>
    /\ Len(diag.missingPaths) < Len(SourcePaths)
    /\ TranslationPaths # <<>>

\* C5: extraPaths holds a path key p exactly when p is a string-leaf path of
\* the translation and not one of the source, and no extra path is reported
\* as missing.
C5_ExtraDetection ==
    (pc = "diagnosed" /\ ~diag.threw) =>
        /\ Range(diag.extraPaths) = Range(TranslationPaths) \ Range(SourcePaths)
        /\ Range(diag.extraPaths) \cap Range(diag.missingPaths) = {}

C5_Witness ==
    /\ pc = "diagnosed"
    /\ diag.extraPaths # <<>>
    /\ diag.missingPaths = <<>>
    /\ SourcePaths # <<>>

\* The text after the first '|' of a string that holds one.
HasPipe(t) == \E i \in 1..Len(t) : t[i] = "|"
AfterFirstPipe(t) ==
    LET first == CHOOSE i \in 1..Len(t) : t[i] = "|" /\ \A j \in 1..(i - 1) : t[j] # "|"
    IN  SubSeq(t, first + 1, Len(t))

\* The split rule, for the string leaves of doc and a translation map built
\* from doc.
SplitRule(doc, map) ==
    LET c == collectStringPaths(doc)
    IN  \A i \in 1..Len(c.result) :
            IF HasPipe(c.leaves[i].str)
            THEN /\ HasKey(map, c.result[i])
                 /\ GetKey(map, c.result[i]) = JString(Trim(AfterFirstPipe(c.leaves[i].str)))
            ELSE ~HasKey(map, c.result[i])

C7_MapEveryLeaf ==
    pc = "mapped" =>
        LET c == collectStringPaths(originalJson)
        IN  \A i \in 1..Len(c.result) :
                HasKey(walked, c.result[i]) /\ GetKey(walked, c.result[i]) = c.leaves[i]

----------------------------------------------------------------------------
(* Claims about the normalizer and the line differencer.                   *)

\* C8: cleanTranslatedValue(cleanTranslatedValue(s)) equals
\* cleanTranslatedValue(s) for every string s.
C8_Idempotence ==
    pc = "recleaned" => cleaned[2] = cleaned[1]

NonWhitespace(s) == SelectSeq(s, LAMBDA c : ~IsWhitespace(c))

C10_PastTheEnd ==
    pc = "diffed" =>
        LET originalLines == Split(original, LF)
            translatedLines == Split(translated, LF)
        IN  \A i \in 1..Len(lcs.original) :
                /\ i > Len(originalLines) =>
                      /\ lcs.original[i] = DiffLine(<<>>, "removed", i)
                      /\ lcs.translated[i] = DiffLine(translatedLines[i], "added", i)
                /\ i > Len(translatedLines) =>
                      /\ lcs.original[i] = DiffLine(originalLines[i], "removed", i)
                      /\ lcs.translated[i] = DiffLine(<<>>, "added", i)

----------------------------------------------------------------------------
(* Claims about the node cap.                                              *)

\* The number of nodes of a document: what a full traversal visits.
RECURSIVE NodeCount(_)
NodeCount(doc) ==
    1 + (IF doc.items = <<>> THEN 0
         ELSE LET counts == [i \in 1..Len(doc.items) |-> NodeCount(doc.items[i])]
                  sum[k \in 0..Len(counts)] == IF k = 0 THEN 0 ELSE sum[k - 1] + counts[k]
              IN  sum[Len(counts)])

\* C12: collectStringPaths, buildTranslationMapFromJson and
\* findTitleDuplicates, run on a document of more nodes than the cap, each end
\* by throwing to the caller; none returns a result.
C12_NodeCapGuard ==
    (pc \in {"cap_collected", "cap_mapped", "cap_titled"}
        /\ NodeCount(originalJson) > CapNodes) => walked.threw

----------------------------------------------------------------------------
(* Claims about the value resolver.                                        *)

\* The walk of the claim: a Key segment needs a plain object that holds the
\* key, an Index segment an array and an index within it; `found` tells
\* whether every segment was met.
RECURSIVE Resolve(_, _)
Resolve(cur, segs) ==
    IF segs = <<>> THEN [found |-> TRUE, value |-> cur]
    ELSE LET s == Head(segs)
         IN  IF s.isNum
             THEN IF cur.kind = "array" /\ s.num >= 0 /\ s.num < Len(cur.items)
                  THEN Resolve(cur.items[s.num + 1], Tail(segs))
                  ELSE [found |-> FALSE, value |-> JUndefined]
             ELSE IF cur.kind = "object" /\ HasKey(cur, s.name)
                  THEN Resolve(GetKey(cur, s.name), Tail(segs))
                  ELSE [found |-> FALSE, value |-> JUndefined]

\* C13: getByPath(root, key) returns undefined whenever a Key segment of the
\* key meets a node that is not a plain object holding that key or an Index
\* segment meets a node that is not an array or an index outside it, and
\* returns null for a leaf that is present with the value null.
C13_Absence ==
    pc = "resolved" =>
        LET r == Resolve(originalJson, parsePathKey(pathKey))
        IN  /\ ~r.found => walked = JUndefined
            /\ (r.found /\ r.value = JNull) => walked = JNull

----------------------------------------------------------------------------
(* Claims about the standalone validator and the strict comparator.        *)

\* A path was given for an entry of args: the entry is a non-empty string.
PathGiven(a) == a.kind = "string" /\ a.str # <<>>

\* C14: the standalone validator ends with status 2 when the original or the
\* translated path is not given or a file cannot be read or parsed, with
\* status 1 when the comparison produced at least one error, and with status
\* 0 otherwise, extra-path warnings or not.
C14_ExitStatus ==
    pc = "exited" =>
        LET args == parseArgs(argv)
        IN  exitCode =
                IF \/ ~PathGiven(args.original) \/ ~PathGiven(args.translated)
                   \/ ~CanReadJson(files, args.original.str)
                   \/ ~CanReadJson(files, args.translated.str)
                THEN <<2>>
                ELSE IF results.errors # <<>> THEN <<1>> ELSE <<0>>

\* The flattened source, and the flattened translation with its strings
\* normalized as the comparator under way normalizes them.
SourceFlat == flattenJSON(originalJson, <<>>)
NormalizedLeaf(v) ==
    IF v.kind # "string" THEN v
    ELSE IF pc = "compared_web"
    THEN JString(cleanTranslatedValue(v.str, getChineseRegex(NullRegex),
                                      buildSepRegex(separators)))
    ELSE JString(normalizeTranslated(v.str, buildSepRegexOfList(SepList(NoArgs))))
TranslationFlat ==
    LET flat == flattenJSON(translationJson, <<>>)
    IN  JObject(flat.keys, [i \in 1..Len(flat.items) |-> NormalizedLeaf(flat.items[i])])

\* The outcome the classification gives a source path, "none" for no record.
Outcome(p) ==
    IF ~HasKey(TranslationFlat, p) THEN "missing"
    ELSE IF GetKey(SourceFlat, p).kind # GetKey(TranslationFlat, p).kind THEN "type_mismatch"
    ELSE IF GetKey(SourceFlat, p) # GetKey(TranslationFlat, p) THEN "value_mismatch"
    ELSE "none"

\* The outcome an error record stands for.
OutcomeOf(type) == IF type = "string_mismatch" THEN "value_mismatch" ELSE type

\* C15: a strict comparison records, for every scalar-leaf path p of the
\* source, exactly the one outcome of: Missing when p is no path of the
\* translation, else TypeMismatch when the kinds of the two values differ,
\* else ValueMismatch when the values differ, else nothing; and it warns of
\* exactly the translation paths that are no path of the source, none of
\* which is an error.
C15_Classification ==
    pc \in {"compared_web", "compared_cli"} =>
        /\ \A p \in Range(SourceFlat.keys) :
              LET recorded == SelectSeq(results.errors, LAMBDA e : e.path = p)
              IN  IF Outcome(p) = "none" THEN recorded = <<>>
                  ELSE Len(recorded) = 1 /\ OutcomeOf(recorded[1].type) = Outcome(p)
        /\ \A i \in 1..Len(results.errors) : results.errors[i].path \in Range(SourceFlat.keys)
        /\ {results.warnings[i].path : i \in 1..Len(results.warnings)}
               = Range(TranslationFlat.keys) \ Range(SourceFlat.keys)
        /\ \A i \in 1..Len(results.warnings) : results.warnings[i].type = "extra"

\* The String Normalizer in full: NFKC folding, Han removal, removal of the
\* Separator Set with the whitespace around it, whitespace collapse, trim.
FullNormalizer(t) ==
    cleanTranslatedValue(t, getChineseRegex(NullRegex), buildSepRegex(separators))

\* C16: in the web comparator and in the standalone one, a source string
\* leaf whose translated leaf is a string gets an error exactly when the
\* String Normalizer's result for the translated leaf differs from it.
C16_FullNormalization ==
    pc \in {"compared_web", "compared_cli"} =>
        LET rawFlat == flattenJSON(translationJson, <<>>)
        IN  \A p \in Range(SourceFlat.keys) \cap Range(rawFlat.keys) :
                (GetKey(SourceFlat, p).kind = "string" /\ GetKey(rawFlat, p).kind = "string") =>
                    ((\E i \in 1..Len(results.errors) : results.errors[i].path = p)
                        <=> FullNormalizer(GetKey(rawFlat, p).str) # GetKey(SourceFlat, p).str)

----------------------------------------------------------------------------
(* Claims about the diagnostics.                                           *)

\* C17: diagnoseMatch returns a diagnostics record and never throws, for any
\* two documents of any size and shape, a scalar, null or an array at the
\* root included.
C17_Totality ==
    pc \in {"diagnosed", "self_diagnosed", "cap_diagnosed", "cap_diagnosed_swapped"} =>
        ~diag.threw

----------------------------------------------------------------------------
(* Claims about the matcher cache.                                         *)

\* C18: over any sequence of cleanTranslatedValue, compareJSON, validate and
\* clearAll calls on one JSONValidator, each of the two matchers is
\* constructed at most once, a matcher once set is never replaced or reset
\* to null, and the separator matcher is the one of the validator's own
\* separator list.
C18_MatcherCache ==
    [][/\ sepRegex.built => sepRegex' = sepRegex
       /\ chineseRegex.built => chineseRegex' = chineseRegex
       /\ builds'.sep <= 1 /\ builds'.zh <= 1
       /\ sepRegex'.built => sepRegex' = buildSepRegex(separators)]_vars

\* clearAll has run on a validator whose matchers were built and used by two
\* cleanTranslatedValue calls, and the matchers are still set.
C18_Witness ==
    /\ pc = "cleared"
    /\ Len(cleaned) = 2
    /\ cleaned[1].kind = "string" /\ cleaned[2].kind = "string"
    /\ builds = [sep |-> 1, zh |-> 1]
    /\ sepRegex.built /\ chineseRegex.built
    /\ originalJson = JNull

\* The path keys of the string leaves of a document in discovery order:
\* depth first, the children of an array by ascending index and those of an
\* object in its key-enumeration order.
RECURSIVE Discovery(_, _)
Discovery(node, path) ==
    IF node.kind = "string" THEN <<buildPathKey(path)>>
    ELSE Concat([i \in 1..Len(node.items) |->
                    Discovery(node.items[i],
                              Append(path, IF node.kind = "array" THEN IdxSeg(i - 1)
                                           ELSE KeySeg(node.keys[i])))])

\* C19: missingPaths and the paths of typeMismatches follow the discovery
\* order of the source, and extraPaths the discovery order of the
\* translation: each list is the discovery order with the paths that do not
\* belong to it left out.
C19_Ordering ==
    (pc = "diagnosed" /\ ~diag.threw) =>
        LET source == Discovery(originalJson, <<>>)
            translation == Discovery(translationJson, <<>>)
            mismatched == {diag.typeMismatches[i].path : i \in 1..Len(diag.typeMismatches)}
        IN  /\ SourcePaths = source
            /\ TranslationPaths = translation
            /\ diag.missingPaths = SelectSeq(source, LAMBDA q : q \notin Range(translation))
            /\ diag.extraPaths = SelectSeq(translation, LAMBDA q : q \notin Range(source))
            /\ [i \in 1..Len(diag.typeMismatches) |-> diag.typeMismatches[i].path]
                   = SelectSeq(source, LAMBDA q : q \in mismatched)

\* Two missing paths and two extra paths, each pair in document order.
C19_Witness ==
    /\ pc = "diagnosed"
    /\ Len(diag.missingPaths) = 2 /\ diag.missingPaths[1] # diag.missingPaths[2]
    /\ Len(diag.extraPaths) = 2 /\ diag.extraPaths[1] # diag.extraPaths[2]

\* The kinds a typeMismatches record can name.
ValueKinds == {"string", "number", "boolean", "array", "object", "null"}

\* C20: every typeMismatches record is for a path key of both documents'
\* string-leaf paths, names for each document the kind of a value the walker
\* found under that path key, names kinds among string, number, boolean,
\* array, object and null, and names two different kinds.
C20_TypeMismatchContent ==
    (pc = "diagnosed" /\ ~diag.threw) =>
        LET o == collectStringPaths(originalJson)
            t == collectStringPaths(translationJson)
        IN  \A k \in 1..Len(diag.typeMismatches) :
                LET m == diag.typeMismatches[k]
                IN  /\ m.path \in Range(o.result) \cap Range(t.result)
                    /\ \E i \in 1..Len(o.result) :
                          o.result[i] = m.path /\ o.leaves[i].kind = m.originalType
                    /\ \E i \in 1..Len(t.result) :
                          t.result[i] = m.path /\ t.leaves[i].kind = m.translationType
                    /\ m.originalType \in ValueKinds
                    /\ m.translationType \in ValueKinds
                    /\ m.originalType # m.translationType

\* C21: diagnoseMatch of a source and the translation map of a translation
\* document reports the same missing paths, extra paths and type mismatches
\* as diagnoseMatch of the source and the translation document itself.
C21_MapAsTranslation ==
    pc = "diagnosed_with_map" =>
        LET direct == diagnoseMatch(originalJson, translationJson)
        IN  /\ diag.missingPaths = direct.missingPaths
            /\ diag.extraPaths = direct.extraPaths
            /\ diag.typeMismatches = direct.typeMismatches

\* C22: two distinct string leaves of one document never receive the same
\* canonical path key, so buildTranslationMapFromJson(doc) has exactly as
\* many entries as doc has string leaves.
C22_KeyUniqueness ==
    pc = "mapped" =>
        LET c == collectStringPaths(originalJson)
        IN  /\ \A i, j \in 1..Len(c.result) : i # j => c.result[i] # c.result[j]
            /\ Len(walked.keys) = Len(c.leaves)

----------------------------------------------------------------------------
(* Claims about timestamps.                                                *)

\* A point M:SS: one to three minute digits, a colon, seconds 00..59.
IsPoint(t) ==
    \E k \in 1..3 :
        /\ Len(t) = k + 3
        /\ \A i \in 1..k : IsDigit(t[i])
        /\ t[k + 1] = ":"
        /\ IsDigit(t[k + 2]) /\ IsDigit(t[k + 3])
        /\ StringToNumber(<<t[k + 2], t[k + 3]>>) <= 59
PointMinutes(t) == StringToNumber(SubSeq(t, 1, Len(t) - 3))
PointSeconds(t) == StringToNumber(SubSeq(t, Len(t) - 1, Len(t)))
TotalSeconds(t) == 60 * PointMinutes(t) + PointSeconds(t)
\* The minutes as a number padded with zeros to two digits, a colon and the
\* two digits of the seconds.
ShownPoint(t) ==
    (IF PointMinutes(t) < 10 THEN <<"0">> ELSE <<>>) \o NumberToString(PointMinutes(t))
        \o SubSeq(t, Len(t) - 2, Len(t))
\* The places of a text where it divides into two points around a hyphen.
RangeSplits(t) ==
    {k \in 1..Len(t) : /\ t[k] = "-"
                       /\ IsPoint(SubSeq(t, 1, k - 1))
                       /\ IsPoint(SubSeq(t, k + 1, Len(t)))}

\* C23: normalizeTimestamp returns a string exactly when the trimmed input
\* is one point M:SS, or two points M:SS-M:SS with the end not before the
\* start; the string shows each point with its minutes padded to two digits.
\* In every other case (seconds of 60 or more, end before start, malformed
\* or surplus parts) it returns undefined.
C23_Acceptance ==
    pc = "normalized" =>
        LET t == Trim(ts)
        IN  IF IsPoint(t) THEN stamp = Timestamp(ShownPoint(t))
            ELSE IF \E k \in RangeSplits(t) :
                        TotalSeconds(SubSeq(t, k + 1, Len(t)))
                            >= TotalSeconds(SubSeq(t, 1, k - 1))
            THEN LET k == CHOOSE k \in RangeSplits(t) : TRUE
                 IN  stamp = Timestamp(ShownPoint(SubSeq(t, 1, k - 1)) \o <<"-">>
                                       \o ShownPoint(SubSeq(t, k + 1, Len(t))))
            ELSE stamp = NoTimestamp

----------------------------------------------------------------------------
(* Claims about repeated and leading indices in path keys.                 *)

\* A key name made of word characters only.
PlainName(k) == k # <<>> /\ \A i \in 1..Len(k) : IsWordChar(k[i])
\* A path made of a name followed by two or more indices, as of a string
\* inside nested arrays.
NameThenIndices(p) ==
    /\ Len(p) >= 3
    /\ ~p[1].isNum /\ PlainName(p[1].name)
    /\ \A i \in 2..Len(p) : p[i].isNum
\* A path that starts with an index, as under a root array.
LeadingIndex(p) ==
    /\ p # <<>> /\ p[1].isNum
    /\ \A i \in 2..Len(p) : ~p[i].isNum /\ PlainName(p[i].name)

\* C24: parsePathKey turns the key of a name followed by several indices
\* into the name followed by every index in order, and the key of a path
\* starting with an index into a path starting with that numeric index.
C24_RepeatedIndices ==
    pc = "decoded" =>
        /\ NameThenIndices(segments) => parsed = segments
        /\ LeadingIndex(segments) => (parsed # <<>> /\ parsed[1] = segments[1])

----------------------------------------------------------------------------
(* Claims about the editor.                                                *)

\* The steps that edit the source successfully, by the handler that ran.
VisualOrTextEdits == {"visual_changed", "text_parsed"}
SuccessfulEdits == {"visual_changed", "text_parsed", "formatted"}

\* C25: when a visual edit or a successful raw-text edit changes the source
\* data from a document D to D', Undo restores data to D and sets the raw
\* text to the serialization of D, and Redo right after that Undo restores
\* data to D'; every Undo and every Redo moves one entry between the past
\* and future stacks, keeping len(past) + len(future) unchanged.
C25_UndoRedoInverse ==
    [][/\ (pc' \in VisualOrTextEdits /\ ~Falsy(data)) =>
              /\ CanUndo(AppState')
              /\ LET undone == undo(AppState')
                 IN  /\ undone.data = data
                     /\ undone.jsonText = JsonStringify(data)
                     /\ CanRedo(undone)
                     /\ redo(undone).data = data'
       /\ pc' = "undone" =>
              /\ data' = past[Len(past)]
              /\ jsonText' = JsonStringify(data')
              /\ Len(past') = Len(past) - 1 /\ Len(future') = Len(future) + 1
       /\ pc' = "redone" =>
              /\ data' = future[Len(future)]
              /\ Len(future') = Len(future) - 1 /\ Len(past') = Len(past) + 1
      ]_vars

\* C26: after every successful edit of the source (handleVisualChange,
\* handleTextChange with a text that parses, handleFormat) the future stack
\* is empty and Redo is unavailable; an empty future stack stays empty until
\* the next Undo; Undo and Redo only take effect while data is not null and
\* their stack is not empty.
C26_EditInvalidatesRedo ==
    [][/\ pc' \in SuccessfulEdits => (future' = <<>> /\ ~CanRedo(AppState'))
       /\ (future = <<>> /\ future' # <<>>) => pc' = "undone"
       /\ pc' = "undone" => (data # JNull /\ past # <<>>)
       /\ pc' = "redone" => (data # JNull /\ future # <<>>)
      ]_vars

\* A formatted source after an earlier edit.
C26_Witness ==
    /\ pc = "formatted"
    /\ past # <<>>
    /\ future = <<>>

----------------------------------------------------------------------------
(* Claims about the translation service.                                   *)

\* The delays a call has started when `n` attempts have failed and another
\* attempt has been allowed: 1000 * 2^k ms after failed attempt k
WaitsAfter(n) == [k \in 1..n |-> 1000 * 2^k]

\* C27: translateJson makes at most 3 attempts; it returns the parsed
\* result of the first attempt that succeeds and makes no further attempt
\* after it; after a failed attempt k < 3 it waits 1000 * 2^k ms before the
\* next one; after the third failure it stops without waiting and rejects
\* with the error of the last attempt.
C27_RetryBound ==
    [][/\ attempt' \in 1..3
       /\ pc \notin {"returned", "thrown"}
       /\ pc' = "returned" =>
             /\ TryAttempt(response').ok
             /\ reply' = Resolved(TryAttempt(response').value)
             /\ attempt' = attempt /\ delays' = WaitsAfter(attempt - 1)
       /\ pc' = "delaying" =>
             /\ ~TryAttempt(response').ok
             /\ attempt' = attempt /\ attempt < 3
             /\ delays' = WaitsAfter(attempt)
             /\ reply' = Pending
       /\ (pc = "delaying" /\ pc' = "awaiting") =>
             /\ attempt' = attempt + 1 /\ delays' = delays
       /\ pc' = "thrown" =>
             /\ ~TryAttempt(response').ok
             /\ attempt = 3 /\ attempt' = 3
             /\ delays' = delays /\ delays = WaitsAfter(2)
             /\ lastError' = ErrorOf(TryAttempt(response').error, 3)
             /\ reply' = Rejected(lastError')
      ]_vars

\* The third attempt has failed after two delays
C27_Witness ==
    /\ pc = "thrown" /\ attempt = 3 /\ delays = <<2000, 4000>>
    /\ reply.state = "rejected" /\ reply.error.attempt = 3

----------------------------------------------------------------------------
(* Claims about bilingual extraction.                                      *)

\* R with each string leaf that holds a '|' replaced by the trimmed text
\* before its first '|', and nothing else changed
RECURSIVE PipeStripped(_)
PipeStripped(node) ==
    IF node.kind = "string"
    THEN IF Len(Split(node.str, "|")) > 1
         THEN JString(Trim(Split(node.str, "|")[1]))
         ELSE node
    ELSE IF node.kind = "array"
    THEN JArray([i \in 1..Len(node.items) |-> PipeStripped(node.items[i])])
    ELSE IF node.kind = "object"
    THEN JObject(node.keys, [i \in 1..Len(node.items) |-> PipeStripped(node.items[i])])
    ELSE node

\* C28: extractBilingual(R).original has the object keys and array indices
\* of R at every level and differs from R only in that each string leaf
\* holding a '|' is replaced by the trimmed text before its first '|';
\* diagnoseMatch(original, R) reports no missing and no extra paths.
C28_ExtractionPreservesStructure ==
    (pc = "extracted" /\ ~walked.threw) =>
        /\ walked.original = PipeStripped(originalJson)
        /\ diagnoseMatch(walked.original, originalJson).missingPaths = <<>>
        /\ diagnoseMatch(walked.original, originalJson).extraPaths = <<>>

\* C29: the stored translationDiag and translationMap are the ones computed
\* from the current source data and the currently loaded translation
\* document, after any sequence of raw-text edits, visual edits, undo, redo,
\* format and edits of the translation JSON.
C29_DiagnosticsFresh ==
    Parses(translationJsonText) =>
        LET tjson == JsonParse(translationJsonText)
        IN  /\ translationMap = buildTranslationMapFromJson(tjson)
            /\ translationDiag = PaneDiagnostics(AppState, tjson)

\* C30: a raw-text edit that fails to parse sets parseError and leaves
\* data, past, future and the translation map unchanged; and after any
\* sequence of raw-text edits, visual edits, undo, redo and format,
\* parseError is non-null exactly when the current raw JSON text is not
\* blank and does not parse.
C30_ParseErrorConsistent ==
    [][/\ pc' = "text_rejected" =>
             /\ parseError' # JNull
             /\ data' = data /\ past' = past /\ future' = future
             /\ translationMap' = translationMap
       /\ parseError' # JNull <=> (~IsBlank(jsonText') /\ ~Parses(jsonText'))
      ]_vars

====
